---- MODULE Spec2Model ----
(***************************************************************************)
(* Model of steam-bulk-uninstaller: the deletion engine and the size       *)
(* accounting (steam_uninstaller/uninstaller.py) over a small filesystem,  *)
(* the VDF parser (steam_uninstaller/steam.py, parse_vdf) over token       *)
(* sequences, and the catalog builder (steam.py, get_all_installed_games   *)
(* and what it calls) over descriptor files of that filesystem.            *)
(***************************************************************************)
EXTENDS Integers, Sequences, FiniteSets, TLC

(***************************************************************************)
(* Bounds of the model.                                                    *)
(***************************************************************************)
MaxGames == 2      \* longest list handed to uninstall_games
MaxAbsent == 1     \* top-level entries missing from the initial filesystem
MaxFaults == 1     \* filesystem operations that raise
MaxBatches == 2    \* uninstall_games calls in one behaviour
MaxTokens == 7     \* longest token sequence handed to parse_vdf
MaxEdits == 2      \* descriptor files whose text is not the usual one
MaxBuilds == 2     \* get_all_installed_games calls in one behaviour

VARIABLES
    fs,               \* the filesystem: path -> [kind, size]
    faults,           \* the filesystem operations that raise, and what
    games,            \* argument of uninstall_games
    dry_run,          \* argument of uninstall_games
    pc,               \* position in uninstall_games / uninstall_game
    i,                \* index of the for loop of uninstall_games (1-based)
    progress,         \* the calls received by progress_callback, in order
    paths_to_delete,  \* local of uninstall_game
    k,                \* index of the for loop of uninstall_game (1-based)
    bytes_freed,      \* local of uninstall_game
    measured,         \* the sizes uninstall_game has measured: [index, size]
    attempted,        \* the loop indices uninstall_game was called for
    results,          \* local of uninstall_games
    fs_entry,         \* the filesystem when the current uninstall_game began
    fs_start,         \* the filesystem when the current uninstall_games began
    returned,         \* the UninstallSummary of every finished batch
    tokens,           \* parse_vdf: the matches of token_pattern, in order
    pos,              \* parse_vdf: index of the next match (1-based)
    result,           \* parse_vdf: the root mapping
    stack,            \* parse_vdf: the open mappings, as key paths from result
    current_key,      \* parse_vdf: <<>> for None, <<key>> otherwise
    ppc,              \* parse_vdf: "scan", "returned" or "raised"
    size_path,        \* get_dir_size called alone: its argument
    size_total,       \* get_dir_size called alone: what it returned
    spc,              \* get_dir_size called alone: "idle" or "returned"
    content,          \* the text of every descriptor file: [readable, tokens]
    listing,          \* the order in which directories list their entries
    cpc,              \* position in get_all_installed_games
    steam_root,       \* local of get_all_installed_games
    libraries,        \* local of get_all_installed_games
    playtime_data,    \* local of get_all_installed_games
    lib_i,            \* index of its loop over libraries (1-based)
    all_games,        \* local of get_all_installed_games
    catalogs,         \* what every finished get_all_installed_games returned
    args,             \* main: the parsed command line, [dry_run, list_games]
    app,              \* run_tui: <<>> before the app is made, <<app>> after
    screen_stack,     \* the screens the app has pushed, the active one last
    tpc               \* position in main and in the application

uvars == <<fs, faults, games, dry_run, pc, i, progress, paths_to_delete, k,
           bytes_freed, measured, attempted, results, fs_entry, fs_start, returned>>
pvars == <<tokens, pos, result, stack, current_key, ppc>>
svars == <<size_path, size_total, spc>>
cvars == <<content, listing, cpc, steam_root, libraries, playtime_data, lib_i,
           all_games, catalogs>>
tvars == <<args, app, screen_stack, tpc>>
vars == <<uvars, pvars, svars, cvars, tvars>>

(***************************************************************************)
(* Paths.  A path is the sequence of its components from "/".              *)
(***************************************************************************)
AbsoluteNames == {"/x", "/lib", "/lib/", "/lib2", "/gone"}

AbsolutePath(name) ==
    CASE name = "/x" -> <<"x">>
      [] name = "/lib" -> <<"lib">>
      [] name = "/lib/" -> <<"lib">>
      [] name = "/lib2" -> <<"lib2">>
      [] name = "/gone" -> <<"gone">>

\* pathlib's  p / name : an empty segment adds nothing, an absolute segment
\* replaces everything before it.
PathJoin(p, name) ==
    IF name = "" THEN p
    ELSE IF name \in AbsoluteNames THEN AbsolutePath(name)
    ELSE Append(p, name)

IsPrefix(p, q) == Len(p) <= Len(q) /\ SubSeq(q, 1, Len(p)) = p

Parent(p) == SubSeq(p, 1, Len(p) - 1)

LibraryRoot == <<"lib">>
SteamApps == <<"lib", "steamapps">>

\* SteamGame properties
manifest_path(game) ==
    PathJoin(PathJoin(game.library_path, "steamapps"),
             "appmanifest_" \o game.appid \o ".acf")

game_path(game) ==
    PathJoin(PathJoin(PathJoin(game.library_path, "steamapps"), "common"),
             game.install_dir)

compatdata_path(game) ==
    PathJoin(PathJoin(PathJoin(game.library_path, "steamapps"), "compatdata"),
             game.appid)

shadercache_path(game) ==
    PathJoin(PathJoin(PathJoin(game.library_path, "steamapps"), "shadercache"),
             game.appid)

(***************************************************************************)
(* The filesystem of the model.                                            *)
(***************************************************************************)
FileSizes ==
    { <<SteamApps \o <<"appmanifest_10.acf">>, 1>>,
      <<SteamApps \o <<"appmanifest_20.acf">>, 2>>,
      <<SteamApps \o <<"libraryfolders.vdf">>, 4>>,
      <<SteamApps \o <<"common", "A", "f">>, 8>>,
      <<SteamApps \o <<"common", "A", "g">>, 16>>,
      <<SteamApps \o <<"common", "B", "f">>, 32>>,
      <<SteamApps \o <<"compatdata", "10", "f">>, 64>>,
      <<SteamApps \o <<"compatdata", "20", "f">>, 128>>,
      <<SteamApps \o <<"shadercache", "10", "f">>, 256>>,
      <<<<"x", "f">>, 512>>,
      <<<<"lib", "userdata", "1", "config", "localconfig.vdf">>, 1024>>,
      <<<<"lib", "userdata", "2", "config", "localconfig.vdf">>, 2048>>,
      <<<<"lib2", "steamapps", "appmanifest_30.acf">>, 4096>>,
      <<<<"lib2", "steamapps", "common", "C", "f">>, 8192>> }

FilePaths == { e[1] : e \in FileSizes }

DirPaths ==
    { LibraryRoot, SteamApps,
      SteamApps \o <<"common">>,
      SteamApps \o <<"common", "A">>,
      SteamApps \o <<"common", "B">>,
      SteamApps \o <<"compatdata">>,
      SteamApps \o <<"compatdata", "10">>,
      SteamApps \o <<"compatdata", "20">>,
      SteamApps \o <<"shadercache">>,
      SteamApps \o <<"shadercache", "10">>,
      SteamApps \o <<"shadercache", "20">>,
      <<"x">>,
      <<"lib", "userdata">>,
      <<"lib", "userdata", "1">>,
      <<"lib", "userdata", "1", "config">>,
      <<"lib", "userdata", "2">>,
      <<"lib", "userdata", "2", "config">>,
      <<"lib2">>,
      <<"lib2", "steamapps">>,
      <<"lib2", "steamapps", "common">>,
      <<"lib2", "steamapps", "common", "C">> }

AllPaths == FilePaths \cup DirPaths

Absent == [kind |-> "none", size |-> 0]

FullFs ==
    [p \in AllPaths |->
        IF p \in FilePaths
        THEN [kind |-> "file", size |-> (CHOOSE e \in FileSizes : e[1] = p)[2]]
        ELSE [kind |-> "dir", size |-> 0]]

\* The entries one of which may be missing when the program starts.
Units ==
    { SteamApps \o <<"appmanifest_10.acf">>,
      SteamApps \o <<"appmanifest_20.acf">>,
      SteamApps \o <<"common", "A">>,
      SteamApps \o <<"compatdata", "10">>,
      SteamApps \o <<"compatdata", "20">>,
      SteamApps \o <<"shadercache", "10">>,
      <<"x">> }

\* f without the trees rooted at the paths of S
Without(f, S) ==
    [p \in AllPaths |->
        IF \E r \in S : IsPrefix(r, p) THEN Absent ELSE f[p]]

\* Path.exists(), Path.is_file()
Exists(f, p) == p \in AllPaths /\ f[p].kind # "none"
IsFile(f, p) == p \in AllPaths /\ f[p].kind = "file"

Tree(f, p) == { q \in AllPaths : IsPrefix(p, q) /\ f[q].kind # "none" }

(***************************************************************************)
(* Exceptions and faults.                                                  *)
(***************************************************************************)
EACCES == [cls |-> "PermissionError", text |-> "[Errno 13] Permission denied"]
EIO == [cls |-> "OSError", text |-> "[Errno 5] Input/output error"]
ENOENT == [cls |-> "FileNotFoundError",
           text |-> "[Errno 2] No such file or directory"]
ERecursion == [cls |-> "RecursionError",
               text |-> "maximum recursion depth exceeded"]

\* isinstance(exc, cls) over the classes above
IsInstance(exc, cls) ==
    \/ cls = "Exception"
    \/ exc.cls = cls
    \/ cls = "OSError" /\ exc.cls \in {"PermissionError", "FileNotFoundError"}

\* A fault makes one operation on one path raise: "stat" is Path.stat(),
\* "remove" is the os.unlink / os.rmdir of that entry.
FaultChoices ==
    { [op |-> "stat", path |-> SteamApps \o <<"appmanifest_10.acf">>, exc |-> EIO],
      [op |-> "stat", path |-> SteamApps \o <<"common", "A", "f">>, exc |-> EACCES],
      [op |-> "remove", path |-> SteamApps \o <<"appmanifest_20.acf">>, exc |-> EACCES],
      [op |-> "remove", path |-> SteamApps \o <<"common", "A", "g">>, exc |-> EACCES],
      [op |-> "remove", path |-> SteamApps \o <<"common", "A">>, exc |-> ERecursion],
      [op |-> "remove", path |-> SteamApps \o <<"compatdata", "10">>, exc |-> EIO] }

FaultsAt(op, p) == { ft \in faults : ft.op = op /\ ft.path = p }

(***************************************************************************)
(* get_dir_size                                                            *)
(***************************************************************************)
RECURSIVE SumSizes(_, _)
SumSizes(f, S) ==
    IF S = {} THEN 0
    ELSE LET p == CHOOSE q \in S : TRUE
         IN f[p].size + SumSizes(f, S \ {p})

\* the entries of the directory p
Children(f, p) ==
    { q \in AllPaths : /\ Len(q) = Len(p) + 1
                       /\ IsPrefix(p, q)
                       /\ f[q].kind # "none" }

\* the orders in which a directory may list the entries S
Perms(S) ==
    { w \in [1..Cardinality(S) -> S] :
        \A a, b \in 1..Cardinality(S) : a # b => w[a] # w[b] }

\* path.rglob("*"): the entries of path as the directory lists them, then
\* the same for each of its subdirectories in that order.  Below(f, pi, n)
\* is the part for the subdirectories among pi[n], pi[n+1], ...
RECURSIVE rglob(_, _), Below(_, _, _)
rglob(f, p) ==
    UNION { { pi \o rest : rest \in Below(f, pi, 1) } :
            pi \in Perms(Children(f, p)) }

Below(f, pi, n) ==
    IF n > Len(pi) THEN { <<>> }
    ELSE { a \o b :
             a \in (IF f[pi[n]].kind = "dir" THEN rglob(f, pi[n])
                                              ELSE { <<>> }),
             b \in Below(f, pi, n + 1) }

\* The loop over the entries w, from the n-th, with total t so far.
\* entry.is_file() calls stat() and passes on what it raises; the raise is
\* outside the inner try, so the outer "except (OSError, PermissionError):
\* pass" ends the loop and total is returned as it stands.
RECURSIVE WalkTotal(_, _, _, _)
WalkTotal(f, w, n, t) ==
    IF n > Len(w) THEN t
    ELSE IF FaultsAt("stat", w[n]) # {} THEN t
    ELSE WalkTotal(f, w, n + 1,
                   t + (IF f[w[n]].kind = "file" THEN f[w[n]].size ELSE 0))

\* The values get_dir_size(path) may return: one for every order of the
\* walk.
get_dir_size(f, path) ==
    IF ~Exists(f, path) THEN { 0 }
    ELSE { WalkTotal(f, w, 1, 0) : w \in rglob(f, path) }

(***************************************************************************)
(* get_game_paths                                                          *)
(***************************************************************************)
\* get_game_paths taking the flags of the package for the state of the disk
get_game_paths_TrustingFlags(game, f) ==
    << <<manifest_path(game), "manifest">> >>
    \o (IF Exists(f, game_path(game))
        THEN << <<game_path(game), "game files">> >> ELSE <<>>)
    \o (IF game.has_compatdata
        THEN << <<compatdata_path(game), "Proton data">> >> ELSE <<>>)
    \o (IF game.has_shadercache
        THEN << <<shadercache_path(game), "shader cache">> >> ELSE <<>>)

\* get_game_paths with the manifest appended last
get_game_paths_DescriptorLast(game, f) ==
    (IF Exists(f, game_path(game))
     THEN << <<game_path(game), "game files">> >> ELSE <<>>)
    \o (IF game.has_compatdata /\ Exists(f, compatdata_path(game))
        THEN << <<compatdata_path(game), "Proton data">> >> ELSE <<>>)
    \o (IF game.has_shadercache /\ Exists(f, shadercache_path(game))
        THEN << <<shadercache_path(game), "shader cache">> >> ELSE <<>>)
    \o << <<manifest_path(game), "manifest">> >>

\* The list of (path, description) pairs.
get_game_paths(game, f) ==
    << <<manifest_path(game), "manifest">> >>
    \o (IF Exists(f, game_path(game))
        THEN << <<game_path(game), "game files">> >> ELSE <<>>)
    \o (IF game.has_compatdata /\ Exists(f, compatdata_path(game))
        THEN << <<compatdata_path(game), "Proton data">> >> ELSE <<>>)
    \o (IF game.has_shadercache /\ Exists(f, shadercache_path(game))
        THEN << <<shadercache_path(game), "shader cache">> >> ELSE <<>>)

(***************************************************************************)
(* The filesystem calls of uninstall_game.  Each gives the set of its      *)
(* outcomes: [raised, exc, ...].                                           *)
(***************************************************************************)
NoExc == [cls |-> "", text |-> ""]

\* path.stat().st_size for a file, get_dir_size(path) otherwise
Measure(f, path) ==
    IF IsFile(f, path)
    THEN IF FaultsAt("stat", path) # {}
         THEN { [raised |-> TRUE, exc |-> ft.exc, size |-> 0] :
                    ft \in FaultsAt("stat", path) }
         ELSE { [raised |-> FALSE, exc |-> NoExc, size |-> f[path].size] }
    ELSE { [raised |-> FALSE, exc |-> NoExc, size |-> sz] :
               sz \in get_dir_size(f, path) }

\* path.unlink()
Unlink(f, path) ==
    IF FaultsAt("remove", path) # {}
    THEN { [raised |-> TRUE, exc |-> ft.exc, fs |-> f] :
               ft \in FaultsAt("remove", path) }
    ELSE { [raised |-> FALSE, exc |-> NoExc, fs |-> Without(f, {path})] }

Faulty(f, p) == { q \in Tree(f, p) : FaultsAt("remove", q) # {} }

\* The entries rmtree(path) may already have removed, whole, when the
\* removal of q raises: those beside q or beside one of its ancestors.
Beside(f, path, q) ==
    { r \in Tree(f, path) :
        /\ r # path
        /\ IsPrefix(Parent(r), q) /\ Parent(r) # q
        /\ ~IsPrefix(r, q)
        /\ Faulty(f, r) = {} }

\* shutil.rmtree(path): depth first, children before their directory, in
\* the order the directory lists them; the first failure raises.
Rmtree(f, path) ==
    IF ~Exists(f, path)
    THEN { [raised |-> TRUE, exc |-> ENOENT, fs |-> f] }
    ELSE IF Faulty(f, path) = {}
    THEN { [raised |-> FALSE, exc |-> NoExc, fs |-> Without(f, {path})] }
    ELSE UNION {
           { [raised |-> TRUE, exc |-> ft.exc,
              fs |-> Without(f, S \cup { c \in Tree(f, ft.path) :
                                            c # ft.path })] :
               S \in SUBSET Beside(f, path, ft.path) } :
           ft \in { g \in faults : /\ g.op = "remove"
                                   /\ g.path \in Faulty(f, path)
                                   /\ Faulty(f, g.path) = {g.path} } }

Remove(f, path) ==
    IF IsFile(f, path) THEN Unlink(f, path) ELSE Rmtree(f, path)

\* Delete with the dry_run test left out
Delete_IgnoringDryRun(f, path, dry) == Remove(f, path)

\* "if not dry_run:" around the removal
Delete(f, path, dry) ==
    IF dry
    THEN { [raised |-> FALSE, exc |-> NoExc, fs |-> f] }
    ELSE Remove(f, path)

(***************************************************************************)
(* UninstallResult, UninstallSummary                                       *)
(***************************************************************************)
None == <<>>

UninstallResult(game, success, error, bytes) ==
    [game |-> game, success |-> success, error |-> error,
     bytes_freed |-> bytes]

\* Handler leaving bytes_freed at its default
Handler_WithoutBytes(game, exc, bytes) ==
    IF IsInstance(exc, "PermissionError")
    THEN UninstallResult(game, FALSE, <<"Permission denied: " \o exc.text>>, 0)
    ELSE IF IsInstance(exc, "OSError")
    THEN UninstallResult(game, FALSE, <<"OS error: " \o exc.text>>, 0)
    ELSE UninstallResult(game, FALSE, <<exc.text>>, 0)

\* The except clauses of uninstall_game, in their order.
Handler(game, exc, bytes) ==
    IF IsInstance(exc, "PermissionError")
    THEN UninstallResult(game, FALSE, <<"Permission denied: " \o exc.text>>, bytes)
    ELSE IF IsInstance(exc, "OSError")
    THEN UninstallResult(game, FALSE, <<"OS error: " \o exc.text>>, bytes)
    ELSE UninstallResult(game, FALSE, <<exc.text>>, bytes)

\* AppendResult inserting at the front
AppendResult_AtFront(rs, r) == <<r>> \o rs

\* results.append(result)
AppendResult(rs, r) == Append(rs, r)

\* CallbackArgs counting from 1
CallbackArgs_FromOne(idx, total, game) == <<idx, total, game>>

\* the arguments of progress_callback at loop index idx (1-based here,
\* enumerate counts from 0)
CallbackArgs(idx, total, game) == <<idx - 1, total, game>>

RECURSIVE SumBytes(_)
SumBytes(rs) ==
    IF rs = <<>> THEN 0 ELSE rs[1].bytes_freed + SumBytes(Tail(rs))

Successes(rs) == Cardinality({ n \in 1..Len(rs) : rs[n].success })

\* UninstallSummary adding up the successful results only
UninstallSummary_SuccessBytesOnly(total, rs) ==
    [total_games |-> total,
     successful |-> Successes(rs),
     failed |-> total - Successes(rs),
     total_bytes_freed |->
         SumBytes(SelectSeq(rs, LAMBDA r : r.success)),
     results |-> rs]

UninstallSummary(total, rs) ==
    [total_games |-> total,
     successful |-> Successes(rs),
     failed |-> total - Successes(rs),
     total_bytes_freed |-> SumBytes(rs),
     results |-> rs]

(***************************************************************************)
(* The packages handed to uninstall_games.                                 *)
(***************************************************************************)
SteamGame(appid, name, install_dir, has_compatdata, has_shadercache) ==
    [appid |-> appid, name |-> name, install_dir |-> install_dir,
     size_on_disk |-> 0, library_path |-> LibraryRoot,
     has_compatdata |-> has_compatdata, has_shadercache |-> has_shadercache,
     playtime_minutes |-> 0]

\* One complete package; one that shares its payload directory and whose
\* flags are stale; one apart from both; one whose installdir is an
\* absolute path; one whose installdir is empty.
Packages ==
    { SteamGame("10", "Foo", "A", TRUE, TRUE),
      SteamGame("20", "Bar", "A", FALSE, FALSE),
      SteamGame("20", "Baz", "B", TRUE, FALSE),
      SteamGame("10", "Qux", "/x", FALSE, TRUE),
      SteamGame("20", "Nul", "", FALSE, FALSE) }

RECURSIVE Lists(_)
Lists(n) ==
    IF n = 0 THEN { <<>> }
    ELSE Lists(n - 1) \cup
         { Append(l, g) : l \in { m \in Lists(n - 1) : Len(m) = n - 1 },
                          g \in Packages }

(***************************************************************************)
(* uninstall_games and uninstall_game, step by step.                       *)
(***************************************************************************)
UInit ==
    /\ \E A \in SUBSET Units :
          /\ Cardinality(A) <= MaxAbsent
          /\ fs = Without(FullFs, A)
    /\ faults \in { F \in SUBSET FaultChoices : Cardinality(F) <= MaxFaults }
    /\ games = <<>>
    /\ dry_run = FALSE
    /\ pc = "idle"
    /\ i = 1
    /\ progress = <<>>
    /\ paths_to_delete = <<>>
    /\ k = 1
    /\ bytes_freed = 0
    /\ measured = <<>>
    /\ attempted = <<>>
    /\ results = <<>>
    /\ fs_entry = fs
    /\ fs_start = fs
    /\ returned = <<>>

\* uninstall_games(gs, dry_run=dry, progress_callback=...) is called; a
\* later call is over the list of the first.
Call(gs, dry) ==
    /\ pc = "idle"
    /\ Len(returned) < MaxBatches
    /\ returned = <<>> \/ gs = games
    /\ games' = gs
    /\ dry_run' = dry
    /\ results' = <<>>
    /\ i' = 1
    /\ progress' = <<>>
    /\ attempted' = <<>>
    /\ fs_start' = fs
    /\ pc' = "loop"
    /\ UNCHANGED <<fs, faults, paths_to_delete, k, bytes_freed, measured,
                   fs_entry, returned>>

\* progress_callback(i, total, game), indices counted from 0
ProgressCallback ==
    /\ pc = "loop"
    /\ i <= Len(games)
    /\ progress' = Append(progress, CallbackArgs(i, Len(games), games[i]))
    /\ pc' = "plan"
    /\ UNCHANGED <<fs, faults, games, dry_run, i, paths_to_delete, k,
                   bytes_freed, measured, attempted, results, fs_entry,
                   fs_start, returned>>

\* uninstall_game(game, dry_run) begins: bytes_freed = 0 and the plan
Plan ==
    /\ pc = "plan"
    /\ bytes_freed' = 0
    /\ paths_to_delete' = get_game_paths(games[i], fs)
    /\ k' = 1
    /\ measured' = <<>>
    /\ attempted' = Append(attempted, i)
    /\ fs_entry' = fs
    /\ pc' = "delete"
    /\ UNCHANGED <<fs, faults, games, dry_run, i, progress, results,
                   fs_start, returned>>

\* Skip never taken
Skip_Never(f, path) == FALSE

\* "if not path.exists(): continue"
Skip(f, path) == ~Exists(f, path)

\* Raise ending the loop of uninstall_games
Raise_EndingBatch(exc, f, ms) ==
    /\ fs' = f
    /\ measured' = ms
    /\ results' = AppendResult(results, Handler(games[i], exc, bytes_freed))
    /\ i' = Len(games) + 1
    /\ pc' = "loop"
    /\ UNCHANGED <<k, bytes_freed>>

\* an except clause of uninstall_game returns; uninstall_games appends
Raise(exc, f, ms) ==
    /\ fs' = f
    /\ measured' = ms
    /\ results' = AppendResult(results, Handler(games[i], exc, bytes_freed))
    /\ i' = i + 1
    /\ pc' = "loop"
    /\ UNCHANGED <<k, bytes_freed>>

\* the end of one iteration of the loop over paths_to_delete
Continue(size, f, ms) ==
    /\ fs' = f
    /\ measured' = ms
    /\ bytes_freed' = bytes_freed + size
    /\ k' = k + 1
    /\ UNCHANGED <<results, i, pc>>

\* one iteration of the loop over paths_to_delete
ProcessPath ==
    /\ pc = "delete"
    /\ k <= Len(paths_to_delete)
    /\ LET path == paths_to_delete[k][1]
       IN IF Skip(fs, path)
          THEN /\ k' = k + 1
               /\ UNCHANGED <<fs, measured, bytes_freed, results, i, pc>>
          ELSE \E m \in Measure(fs, path) :
                 IF m.raised
                 THEN Raise(m.exc, fs, measured)
                 ELSE LET ms == Append(measured,
                                       [index |-> k, size |-> m.size])
                      IN \E r \in Delete(fs, path, dry_run) :
                           IF r.raised
                           THEN Raise(r.exc, r.fs, ms)
                           ELSE Continue(m.size, r.fs, ms)
    /\ UNCHANGED <<faults, games, dry_run, progress, paths_to_delete,
                   attempted, fs_entry, fs_start, returned>>

\* uninstall_game returns success; uninstall_games appends
ReturnSuccess ==
    /\ pc = "delete"
    /\ k > Len(paths_to_delete)
    /\ results' = AppendResult(results,
                               UninstallResult(games[i], TRUE, None,
                                               bytes_freed))
    /\ i' = i + 1
    /\ pc' = "loop"
    /\ UNCHANGED <<fs, faults, games, dry_run, progress, paths_to_delete, k,
                   bytes_freed, measured, attempted, fs_entry, fs_start,
                   returned>>

\* uninstall_games returns its UninstallSummary
Summarise ==
    /\ pc = "loop"
    /\ i > Len(games)
    /\ returned' = Append(returned,
                          [games |-> games, dry_run |-> dry_run,
                           faults |-> faults,
                           fs_before |-> fs_start, fs_after |-> fs,
                           progress |-> progress, attempted |-> attempted,
                           summary |-> UninstallSummary(Len(games), results)])
    /\ pc' = "idle"
    /\ UNCHANGED <<fs, faults, games, dry_run, i, progress, paths_to_delete,
                   k, bytes_freed, measured, attempted, results, fs_entry,
                   fs_start>>

\* Between two batches what made operations raise goes away (the user
\* fixes the permissions, the device recovers).
Repair ==
    /\ pc = "idle"
    /\ returned # <<>>
    /\ Len(returned) < MaxBatches
    /\ faults # {}
    /\ faults' = {}
    /\ UNCHANGED <<fs, games, dry_run, pc, i, progress, paths_to_delete, k,
                   bytes_freed, measured, attempted, results, fs_entry,
                   fs_start, returned>>

(***************************************************************************)
(* parse_vdf.  The input is the sequence of matches of token_pattern; a    *)
(* match has its text (match.group()) and, for a quoted string, the text   *)
(* between the quotes (match.group(1)).                                    *)
(***************************************************************************)
Strings == {"a", ""}

Quoted(v) == [text |-> "\"" \o v \o "\"", value |-> v]
OpenBrace == [text |-> "{", value |-> ""]
CloseBrace == [text |-> "}", value |-> ""]

Tokens == { Quoted(v) : v \in Strings } \cup {OpenBrace, CloseBrace}

RECURSIVE TokenSeqs(_)
TokenSeqs(n) ==
    IF n = 0 THEN { <<>> }
    ELSE TokenSeqs(n - 1) \cup
         { Append(l, t) : l \in { m \in TokenSeqs(n - 1) : Len(m) = n - 1 },
                          t \in Tokens }

\* A dict is the sequence of its items [key, val] in the order of
\* insertion, which is the order its items() are iterated in.  The values
\* of a dict: a str or a nested dict.
Str(v) == [type |-> "str", str |-> v, items |-> <<>>]
Dict(d) == [type |-> "dict", str |-> "", items |-> d]
EmptyDict == <<>>

\* key in d, d[key], d.get(key, default)
HasKey(d, key) == \E n \in 1..Len(d) : d[n].key = key
GetItem(d, key) == d[CHOOSE n \in 1..Len(d) : d[n].key = key].val
Get(d, key, default) == IF HasKey(d, key) THEN GetItem(d, key) ELSE default

\* SetItem keeping the value a key already has
SetItem_KeepingFirst(d, key, val) ==
    IF HasKey(d, key) THEN d ELSE Append(d, [key |-> key, val |-> val])

\* d[key] = val : a key already there keeps its place
SetItem(d, key, val) ==
    IF HasKey(d, key)
    THEN [n \in 1..Len(d) |->
             IF d[n].key = key THEN [key |-> key, val |-> val] ELSE d[n]]
    ELSE Append(d, [key |-> key, val |-> val])

\* root after  d[key] = val  for the dict d found from root along the keys
\* of path; stack entries are references to dicts inside result, held
\* here as such paths.
RECURSIVE Store(_, _, _, _)
Store(root, path, key, val) ==
    IF path = <<>> THEN SetItem(root, key, val)
    ELSE SetItem(root, path[1],
                 Dict(Store(GetItem(root, path[1]).items, Tail(path),
                            key, val)))

\* MayPop without the test of the depth
MayPop_Always(st) == TRUE

\* "if len(stack) > 1:" before stack.pop()
MayPop(st) == Len(st) > 1

\* The state of the loop before the first match.
Start ==
    [result |-> EmptyDict, stack |-> << <<>> >>, current_key |-> None,
     raised |-> FALSE]

\* stack[-1] or stack.pop() on an empty list: IndexError
Raised(st) == [st EXCEPT !.raised = TRUE]

\* Feed where a "{" without a pending key opens a scope of its own
Feed_OpeningKeyless(st, match) ==
    LET token == match.text
        value == match.value
    IN IF token = "{"
       THEN IF st.stack = <<>>
            THEN Raised(st)
            ELSE IF st.current_key # None
            THEN [st EXCEPT
                    !.result = Store(st.result, st.stack[Len(st.stack)],
                                     st.current_key[1], Dict(EmptyDict)),
                    !.stack = Append(st.stack,
                                     Append(st.stack[Len(st.stack)],
                                            st.current_key[1])),
                    !.current_key = None]
            ELSE [st EXCEPT
                    !.stack = Append(st.stack, st.stack[Len(st.stack)])]
       ELSE IF token = "}"
       THEN IF MayPop(st.stack)
            THEN IF st.stack = <<>>
                 THEN Raised(st)
                 ELSE [st EXCEPT
                         !.stack = SubSeq(st.stack, 1, Len(st.stack) - 1)]
            ELSE st
       ELSE IF st.current_key = None
            THEN [st EXCEPT !.current_key = <<value>>]
            ELSE IF st.stack = <<>>
                 THEN Raised(st)
                 ELSE [st EXCEPT
                         !.result = Store(st.result, st.stack[Len(st.stack)],
                                          st.current_key[1], Str(value)),
                         !.current_key = None]

\* The body of the loop over token_pattern.finditer(content), for one
\* match, on the locals st.
Feed(st, match) ==
    LET token == match.text
        value == match.value
    IN IF token = "{"
       THEN IF st.current_key # None
            THEN IF st.stack = <<>>
                 THEN Raised(st)
                 ELSE [st EXCEPT
                         !.result = Store(st.result, st.stack[Len(st.stack)],
                                          st.current_key[1], Dict(EmptyDict)),
                         !.stack = Append(st.stack,
                                          Append(st.stack[Len(st.stack)],
                                                 st.current_key[1])),
                         !.current_key = None]
            ELSE st
       ELSE IF token = "}"
       THEN IF MayPop(st.stack)
            THEN IF st.stack = <<>>
                 THEN Raised(st)
                 ELSE [st EXCEPT
                         !.stack = SubSeq(st.stack, 1, Len(st.stack) - 1)]
            ELSE st
       ELSE IF st.current_key = None
            THEN [st EXCEPT !.current_key = <<value>>]
            ELSE IF st.stack = <<>>
                 THEN Raised(st)
                 ELSE [st EXCEPT
                         !.result = Store(st.result, st.stack[Len(st.stack)],
                                          st.current_key[1], Str(value)),
                         !.current_key = None]

\* parse_vdf(content) in one go, content given by its matches
RECURSIVE FeedAll(_, _, _)
FeedAll(st, ts, n) ==
    IF n > Len(ts) \/ st.raised THEN st
    ELSE FeedAll(Feed(st, ts[n]), ts, n + 1)

parse_vdf(ts) == FeedAll(Start, ts, 1).result

PInit ==
    /\ tokens \in TokenSeqs(MaxTokens)
    /\ pos = 1
    /\ result = Start.result
    /\ stack = Start.stack
    /\ current_key = Start.current_key
    /\ ppc = "scan"

IndexError ==
    /\ ppc' = "raised"
    /\ UNCHANGED <<tokens, pos, result, stack, current_key>>

\* one iteration of the loop over token_pattern.finditer(content)
ScanToken ==
    /\ ppc = "scan"
    /\ pos <= Len(tokens)
    /\ LET st == Feed([result |-> result, stack |-> stack,
                       current_key |-> current_key, raised |-> FALSE],
                      tokens[pos])
       IN IF st.raised
          THEN IndexError
          ELSE /\ result' = st.result
               /\ stack' = st.stack
               /\ current_key' = st.current_key
               /\ pos' = pos + 1
               /\ UNCHANGED <<tokens, ppc>>

\* "return result" after the last match
ReturnResult ==
    /\ ppc = "scan"
    /\ pos > Len(tokens)
    /\ ppc' = "returned"
    /\ UNCHANGED <<tokens, pos, result, stack, current_key>>

(***************************************************************************)
(* The catalog builder: descriptor files, strings, sorting.                *)
(***************************************************************************)
UserData == <<"lib", "userdata">>
Library2 == <<"lib2">>

\* Path(s)
Path(s) == PathJoin(<<>>, s)

\* the files steamapps.glob("appmanifest_*.acf") matches
ManifestNames ==
    { "appmanifest_10.acf", "appmanifest_20.acf", "appmanifest_30.acf" }

ConfigFile(user) == UserData \o <<user, "config", "localconfig.vdf">>

DescriptorFiles ==
    { SteamApps \o <<"appmanifest_10.acf">>,
      SteamApps \o <<"appmanifest_20.acf">>,
      Library2 \o <<"steamapps", "appmanifest_30.acf">>,
      SteamApps \o <<"libraryfolders.vdf">>,
      ConfigFile("1"),
      ConfigFile("2") }

\* The text of a descriptor, as its matches:  "k" "v"  and  "k" { body }
KV(key, v) == <<Quoted(key), Quoted(v)>>
Block(key, body) == <<Quoted(key), OpenBrace>> \o body \o <<CloseBrace>>

Readable(ts) == [readable |-> TRUE, tokens |-> ts]
Unreadable == [readable |-> FALSE, tokens |-> <<>>]

ManifestText(appid, name, installdir, size) ==
    Block("AppState", KV("appid", appid) \o KV("name", name)
                      \o KV("installdir", installdir)
                      \o KV("SizeOnDisk", size))

ConfigText(apps) ==
    Block("UserLocalConfigStore",
          Block("Software", Block("Valve", Block("Steam",
                                                  Block("apps", apps)))))

\* The usual text of every descriptor file.
DefaultContent ==
    [p \in DescriptorFiles |->
        CASE p = SteamApps \o <<"appmanifest_10.acf">> ->
               Readable(ManifestText("10", "Foo", "A", "5"))
          [] p = SteamApps \o <<"appmanifest_20.acf">> ->
               Readable(ManifestText("20", "Bar", "B", "7"))
          [] p = Library2 \o <<"steamapps", "appmanifest_30.acf">> ->
               Readable(ManifestText("30", "bar", "C", "x"))
          [] p = SteamApps \o <<"libraryfolders.vdf">> ->
               Readable(Block("libraryfolders",
                              Block("0", KV("path", "/lib"))
                              \o Block("1", KV("path", "/lib2"))))
          [] p = ConfigFile("1") ->
               Readable(ConfigText(Block("10", KV("Playtime", "5"))
                                   \o Block("20", KV("Playtime", "7"))))
          [] p = ConfigFile("2") ->
               Readable(ConfigText(Block("10", KV("Playtime", "7"))))]

Edit(p, file) == [path |-> p, file |-> file]

\* Other texts a descriptor file may have.
Edits ==
    { Edit(SteamApps \o <<"appmanifest_10.acf">>,
           Readable(ManifestText("10", "Proton 7", "A", "5"))),
      Edit(SteamApps \o <<"appmanifest_10.acf">>,
           Readable(Block("AppState", KV("appid", "10") \o KV("name", "Foo")))),
      Edit(SteamApps \o <<"appmanifest_10.acf">>,
           Readable(Block("AppState", KV("appid", "10") \o Block("name", <<>>)
                                      \o KV("installdir", "A")))),
      Edit(SteamApps \o <<"appmanifest_10.acf">>,
           Readable(KV("AppState", "x"))),
      Edit(SteamApps \o <<"appmanifest_10.acf">>, Unreadable),
      Edit(SteamApps \o <<"appmanifest_20.acf">>,
           Readable(ManifestText("20", "Runtime", "B", "7"))),
      Edit(SteamApps \o <<"appmanifest_20.acf">>,
           Readable(ManifestText("20", "foo", "A", "7"))),
      Edit(SteamApps \o <<"appmanifest_20.acf">>,
           Readable(Block("AppState", KV("installdir", "B")
                                      \o Block("SizeOnDisk", <<>>)))),
      Edit(SteamApps \o <<"appmanifest_20.acf">>,
           Readable(Block("AppState", KV("appid", "20")
                                      \o KV("installdir", "B")))),
      Edit(SteamApps \o <<"libraryfolders.vdf">>,
           Readable(Block("libraryfolders", Block("0", KV("path", "/lib2"))))),
      Edit(SteamApps \o <<"libraryfolders.vdf">>,
           Readable(Block("libraryfolders",
                          Block("0", KV("path", "/lib"))
                          \o Block("1", KV("path", "/lib2"))
                          \o Block("2", KV("path", "/lib2"))))),
      Edit(SteamApps \o <<"libraryfolders.vdf">>,
           Readable(Block("libraryfolders",
                          Block("0", KV("path", "/gone"))
                          \o Block("1", KV("path", "/lib/"))
                          \o KV("2", "/lib2")))),
      Edit(SteamApps \o <<"libraryfolders.vdf">>,
           Readable(KV("libraryfolders", "x"))),
      Edit(SteamApps \o <<"libraryfolders.vdf">>,
           Readable(Block("libraryfolders", Block("0", Block("path", <<>>))))),
      Edit(ConfigFile("1"),
           Readable(ConfigText(Block("10", KV("Playtime", "9"))
                               \o Block("20", Block("Playtime", <<>>))))),
      Edit(ConfigFile("1"),
           Readable(Block("UserLocalConfigStore", KV("Software", "x")))),
      Edit(ConfigFile("1"),
           Readable(ConfigText(Block("10", KV("Playtime", "x"))
                               \o Block("20", KV("Playtime", "9"))))),
      Edit(ConfigFile("1"), Unreadable),
      Edit(ConfigFile("2"),
           Readable(ConfigText(Block("20", KV("Playtime", "9"))
                               \o KV("10", "5")))) }

\* The orders in which the directories list the descriptor files and the
\* user directories: the order is part of the state of the filesystem.
Listings ==
    { << SteamApps \o <<"appmanifest_10.acf">>,
         SteamApps \o <<"appmanifest_20.acf">>,
         Library2 \o <<"steamapps", "appmanifest_30.acf">>,
         UserData \o <<"1">>, UserData \o <<"2">> >>,
      << SteamApps \o <<"appmanifest_20.acf">>,
         SteamApps \o <<"appmanifest_10.acf">>,
         Library2 \o <<"steamapps", "appmanifest_30.acf">>,
         UserData \o <<"2">>, UserData \o <<"1">> >> }

\* steamapps.glob("appmanifest_*.acf"), userdata_path.iterdir()
glob(f, ls, dir) ==
    SelectSeq(ls, LAMBDA p : /\ Parent(p) = dir
                             /\ p[Len(p)] \in ManifestNames
                             /\ Exists(f, p))

iterdir(f, ls, dir) ==
    SelectSeq(ls, LAMBDA p : Parent(p) = dir /\ Exists(f, p))

\* A str as its code points.
Chars(s) ==
    CASE s = "Foo" -> <<70, 111, 111>>
      [] s = "foo" -> <<102, 111, 111>>
      [] s = "Bar" -> <<66, 97, 114>>
      [] s = "bar" -> <<98, 97, 114>>
      [] s = "Proton 7" -> <<80, 114, 111, 116, 111, 110, 32, 55>>
      [] s = "Runtime" -> <<82, 117, 110, 116, 105, 109, 101>>
      [] s = "Proton" -> <<80, 114, 111, 116, 111, 110>>
      [] s = "Unknown" -> <<85, 110, 107, 110, 111, 119, 110>>
      [] s = "" -> <<>>

\* str.lower(), a < b on str, pat in cs
Lower(cs) ==
    [n \in 1..Len(cs) |->
        IF cs[n] >= 65 /\ cs[n] <= 90 THEN cs[n] + 32 ELSE cs[n]]

RECURSIVE StrLess(_, _)
StrLess(a, b) ==
    IF b = <<>> THEN FALSE
    ELSE IF a = <<>> THEN TRUE
    ELSE IF a[1] # b[1] THEN a[1] < b[1]
    ELSE StrLess(Tail(a), Tail(b))

Contains(cs, pat) ==
    \E n \in 0..(Len(cs) - Len(pat)) : SubSeq(cs, n + 1, n + Len(pat)) = pat

\* int(s): the strings it converts; every other one raises ValueError
Digits == {"0", "5", "7", "9"}

int(s) == CASE s = "0" -> 0 [] s = "5" -> 5 [] s = "7" -> 7 [] s = "9" -> 9

AttributeError == [cls |-> "AttributeError", text |-> "object has no attribute"]
TypeError == [cls |-> "TypeError", text |-> "unsupported operand type"]

Ok(v) == [raised |-> FALSE, exc |-> NoExc, value |-> v]
Exc(e) == [raised |-> TRUE, exc |-> e, value |-> <<>>]

Elements(seq) == { seq[n] : n \in 1..Len(seq) }

(***************************************************************************)
(* get_library_folders                                                     *)
(***************************************************************************)
\* the loop over library_data.items(), from the n-th item
RECURSIVE ScanLibraries(_, _, _, _)
ScanLibraries(f, items, n, libs) ==
    IF n > Len(items) THEN Ok(libs)
    ELSE LET value == items[n].val
         IN IF value.type = "dict" /\ HasKey(value.items, "path")
            THEN LET path == GetItem(value.items, "path")
                 IN IF path.type # "str"
                    THEN Exc(TypeError)
                    ELSE ScanLibraries(f, items, n + 1,
                                       IF Exists(f, Path(path.str))
                                       THEN Append(libs, Path(path.str))
                                       ELSE libs)
            ELSE ScanLibraries(f, items, n + 1, libs)

get_library_folders(f, c, root) ==
    LET vdf_path == PathJoin(PathJoin(root, "steamapps"), "libraryfolders.vdf")
    IN IF ~Exists(f, vdf_path) THEN Ok(<<root>>)
       ELSE IF ~c[vdf_path].readable THEN Exc(EACCES)
       ELSE LET data == parse_vdf(c[vdf_path].tokens)
                library_data == Get(data, "libraryfolders", Dict(EmptyDict))
            IN IF library_data.type # "dict"
               THEN Exc(AttributeError)
               ELSE LET r == ScanLibraries(f, library_data.items, 1, <<>>)
                    IN IF r.raised THEN r
                       ELSE IF root \notin Elements(r.value)
                       THEN Ok(<<root>> \o r.value)
                       ELSE r

(***************************************************************************)
(* get_playtime_data                                                       *)
(***************************************************************************)
\* data.get(key, {}) along keys, from the n-th: AttributeError on a str
RECURSIVE Navigate(_, _, _)
Navigate(node, keys, n) ==
    IF n > Len(keys) THEN Ok(node)
    ELSE IF node.type # "dict" THEN Exc(AttributeError)
    ELSE Navigate(Get(node.items, keys[n], Dict(EmptyDict)), keys, n + 1)

\* playtime[appid] = minutes
SetMinutes(playtime, appid, minutes) ==
    [a \in (DOMAIN playtime) \cup {appid} |->
        IF a = appid THEN minutes ELSE playtime[a]]

\* The loop over apps.items(), from the n-th item, on the dict playtime:
\* int() of a str that is no number raises ValueError, which is passed
\* over; int() of a dict raises TypeError, which leaves the loop with
\* playtime as it then is.
RECURSIVE MergeApps(_, _, _)
MergeApps(items, n, playtime) ==
    IF n > Len(items) THEN [raised |-> FALSE, playtime |-> playtime]
    ELSE LET appid == items[n].key
             app_data == items[n].val
         IN IF app_data.type = "dict" /\ HasKey(app_data.items, "Playtime")
            THEN LET v == GetItem(app_data.items, "Playtime")
                 IN IF v.type # "str"
                    THEN [raised |-> TRUE, playtime |-> playtime]
                    ELSE IF v.str \notin Digits
                    THEN MergeApps(items, n + 1, playtime)
                    ELSE IF \/ appid \notin DOMAIN playtime
                            \/ int(v.str) > playtime[appid]
                    THEN MergeApps(items, n + 1,
                                   SetMinutes(playtime, appid, int(v.str)))
                    ELSE MergeApps(items, n + 1, playtime)
            ELSE MergeApps(items, n + 1, playtime)

\* The body of the loop over the user directories, for one of them:
\* [raised, playtime].  "except Exception: continue" keeps what the try
\* block had written into playtime.
ReadUser(f, c, user_dir, playtime) ==
    LET config_file == PathJoin(PathJoin(user_dir, "config"), "localconfig.vdf")
        same == [raised |-> FALSE, playtime |-> playtime]
        failed == [raised |-> TRUE, playtime |-> playtime]
    IN IF f[user_dir].kind # "dir" THEN same
       ELSE IF ~Exists(f, config_file) THEN same
       ELSE IF ~c[config_file].readable THEN failed
       ELSE LET apps == Navigate(Dict(parse_vdf(c[config_file].tokens)),
                                 <<"UserLocalConfigStore", "Software",
                                   "Valve", "Steam", "apps">>, 1)
            IN IF apps.raised \/ apps.value.type # "dict" THEN failed
               ELSE MergeApps(apps.value.items, 1, playtime)

RECURSIVE ReadUsers(_, _, _, _, _)
ReadUsers(f, c, dirs, n, playtime) ==
    IF n > Len(dirs) THEN playtime
    ELSE ReadUsers(f, c, dirs, n + 1, ReadUser(f, c, dirs[n], playtime).playtime)

get_playtime_data(f, c, ls, root) ==
    LET userdata_path == PathJoin(root, "userdata")
    IN IF ~Exists(f, userdata_path) THEN <<>>
       ELSE ReadUsers(f, c, iterdir(f, ls, userdata_path), 1, <<>>)

(***************************************************************************)
(* get_installed_games                                                     *)
(***************************************************************************)
\* IsTool looking for "Proton" alone
IsTool_ProtonOnly(name) == Contains(Chars(name), Chars("Proton"))

\* "Runtime" in name or "Proton" in name, for a str
IsTool(name) ==
    \/ Contains(Chars(name), Chars("Runtime"))
    \/ Contains(Chars(name), Chars("Proton"))

\* The body of the loop over the manifests, for one of them:
\* [kind, game], kind "game" when a game is appended and its name is a str,
\* "noname" when its name is a dict, "skip" otherwise.  Every exception is
\* caught by "except Exception: continue".
ReadManifest(f, c, manifest, library_path, playtime) ==
    LET skip == [kind |-> "skip", game |-> <<>>]
        steamapps == PathJoin(library_path, "steamapps")
        data == parse_vdf(c[manifest].tokens)
        app_state == Get(data, "AppState", Dict(EmptyDict))
        appid == Get(app_state.items, "appid", Str(""))
        name == Get(app_state.items, "name", Str("Unknown"))
        install_dir == Get(app_state.items, "installdir", Str(""))
        size_str == Get(app_state.items, "SizeOnDisk", Str("0"))
        game == [SteamGame(appid.str,
                           name.str,
                           install_dir.str,
                           Exists(f, PathJoin(PathJoin(steamapps, "compatdata"),
                                              appid.str)),
                           Exists(f, PathJoin(PathJoin(steamapps, "shadercache"),
                                              appid.str)))
                   EXCEPT !.size_on_disk =
                              IF size_str.str \in Digits THEN int(size_str.str)
                                                         ELSE 0,
                          !.library_path = library_path,
                          !.playtime_minutes =
                              IF playtime # <<>> /\ appid.str \in DOMAIN playtime
                              THEN playtime[appid.str] ELSE 0]
    IN IF ~c[manifest].readable THEN skip
       ELSE IF app_state.type # "dict" \/ app_state.items = <<>> THEN skip
       ELSE IF name.type = "str" /\ IsTool(name.str) THEN skip
       ELSE IF /\ name.type = "dict"
               /\ (HasKey(name.items, "Runtime") \/ HasKey(name.items, "Proton"))
       THEN skip
       ELSE IF size_str.type # "str" \/ appid.type # "str"
               \/ install_dir.type # "str"
       THEN skip
       ELSE IF ~Exists(f, game_path(game)) THEN skip
       ELSE IF name.type = "dict" THEN [kind |-> "noname", game |-> <<>>]
       ELSE [kind |-> "game", game |-> game]

\* SortKey without lower()
SortKey_CaseSensitive(game) == Chars(game.name)

\* key=lambda g: g.name.lower()
SortKey(game) == Lower(Chars(game.name))

\* sorted(gs, key=...): stable
RECURSIVE sorted(_)
sorted(gs) ==
    IF gs = <<>> THEN <<>>
    ELSE LET done == sorted(SubSeq(gs, 1, Len(gs) - 1))
             x == gs[Len(gs)]
             m == Cardinality({ n \in 1..Len(done) :
                                  ~StrLess(SortKey(x), SortKey(done[n])) })
         IN SubSeq(done, 1, m) \o <<x>> \o SubSeq(done, m + 1, Len(done))

\* the loop over the manifests, from the n-th: [noname, games]
RECURSIVE ReadManifests(_, _, _, _, _, _, _)
ReadManifests(f, c, manifests, n, library_path, playtime, acc) ==
    IF n > Len(manifests) THEN acc
    ELSE LET r == ReadManifest(f, c, manifests[n], library_path, playtime)
         IN ReadManifests(f, c, manifests, n + 1, library_path, playtime,
                [noname |-> acc.noname \/ r.kind = "noname",
                 games |-> IF r.kind = "game" THEN Append(acc.games, r.game)
                                              ELSE acc.games])

\* The sort is outside the try: a game whose name is a dict makes
\* g.name.lower() raise AttributeError out of get_installed_games.
get_installed_games(f, c, ls, library_path, playtime) ==
    LET steamapps == PathJoin(library_path, "steamapps")
    IN IF ~Exists(f, steamapps) THEN Ok(<<>>)
       ELSE LET r == ReadManifests(f, c, glob(f, ls, steamapps), 1,
                                   library_path, playtime,
                                   [noname |-> FALSE, games |-> <<>>])
            IN IF r.noname THEN Exc(AttributeError) ELSE Ok(sorted(r.games))

(***************************************************************************)
(* get_all_installed_games, step by step.                                  *)
(***************************************************************************)
\* find_steam_root(): the one candidate of the model is LibraryRoot
find_steam_root(f) ==
    IF Exists(f, LibraryRoot) /\ Exists(f, PathJoin(LibraryRoot, "steamapps"))
    THEN LibraryRoot ELSE None

\* get_all_installed_games() is called; without a root it returns []
Build ==
    /\ cpc = "idle"
    /\ Len(catalogs) < MaxBuilds
    /\ steam_root' = find_steam_root(fs)
    /\ libraries' = <<>>
    /\ playtime_data' = <<>>
    /\ all_games' = <<>>
    /\ lib_i' = 1
    /\ IF find_steam_root(fs) = None
       THEN catalogs' = Append(catalogs, <<>>) /\ cpc' = "idle"
       ELSE catalogs' = catalogs /\ cpc' = "libs"
    /\ UNCHANGED <<content, listing>>

\* libraries = get_library_folders(steam_root); what it raises ends the call
GetLibraryFolders ==
    /\ cpc = "libs"
    /\ LET r == get_library_folders(fs, content, steam_root)
       IN IF r.raised
          THEN cpc' = "raised" /\ libraries' = libraries
          ELSE cpc' = "playtime" /\ libraries' = r.value
    /\ UNCHANGED <<content, listing, steam_root, playtime_data, lib_i,
                   all_games, catalogs>>

\* playtime_data = get_playtime_data(steam_root)
GetPlaytimeData ==
    /\ cpc = "playtime"
    /\ playtime_data' = get_playtime_data(fs, content, listing, steam_root)
    /\ cpc' = "games"
    /\ UNCHANGED <<content, listing, steam_root, libraries, lib_i, all_games,
                   catalogs>>

\* all_games.extend(get_installed_games(library, playtime_data))
GetInstalledGames ==
    /\ cpc = "games"
    /\ lib_i <= Len(libraries)
    /\ LET r == get_installed_games(fs, content, listing, libraries[lib_i],
                                    playtime_data)
       IN IF r.raised
          THEN cpc' = "raised" /\ UNCHANGED <<all_games, lib_i>>
          ELSE /\ all_games' = all_games \o r.value
               /\ lib_i' = lib_i + 1
               /\ cpc' = cpc
    /\ UNCHANGED <<content, listing, steam_root, libraries, playtime_data,
                   catalogs>>

\* return sorted(all_games, key=lambda g: g.name.lower())
ReturnCatalog ==
    /\ cpc = "games"
    /\ lib_i > Len(libraries)
    /\ catalogs' = Append(catalogs, sorted(all_games))
    /\ cpc' = "idle"
    /\ UNCHANGED <<content, listing, steam_root, libraries, playtime_data,
                   lib_i, all_games>>

\* get_all_installed_games not called
CIdle ==
    /\ content = DefaultContent
    /\ listing \in { ls \in Listings : ls[1][Len(ls[1])] = "appmanifest_10.acf" }
    /\ cpc = "idle"
    /\ steam_root = None
    /\ libraries = <<>>
    /\ playtime_data = <<>>
    /\ lib_i = 1
    /\ all_games = <<>>
    /\ catalogs = <<>>

(***************************************************************************)
(* main and the screens of the application.  A screen is a record of its   *)
(* attributes; None is <<>> and an object that may be None is <<object>>.  *)
(***************************************************************************)
\* SteamUninstallerApp(dry_run=...)
SteamUninstallerApp(dry) == [dry_run |-> dry]

\* GameListScreen(games, dry_run=...), with the value of its filter input
GameListScreen(gs, dry) ==
    [class |-> "GameListScreen", games |-> gs, dry_run |-> dry,
     selected |-> {}, filtered_games |-> gs, filter |-> ""]

\* calculate_total_size(games): the totals it can return
RECURSIVE calculate_total_size(_, _)
calculate_total_size(f, gs) ==
    IF gs = <<>> THEN {0}
    ELSE LET game == Head(gs)
         IN { game.size_on_disk + c + h + t :
                c \in IF game.has_compatdata
                      THEN get_dir_size(f, compatdata_path(game)) ELSE {0},
                h \in IF game.has_shadercache
                      THEN get_dir_size(f, shadercache_path(game)) ELSE {0},
                t \in calculate_total_size(f, Tail(gs)) }

\* ConfirmScreen whose dry_run is the default of the parameter
ConfirmScreen_DefaultDryRun(gs, dry, total) ==
    [class |-> "ConfirmScreen", games |-> gs, dry_run |-> FALSE,
     total_size |-> total]

\* ConfirmScreen(games, dry_run=...); total is calculate_total_size(games)
ConfirmScreen(gs, dry, total) ==
    [class |-> "ConfirmScreen", games |-> gs, dry_run |-> dry,
     total_size |-> total]

\* ProgressScreen(games, dry_run=...); started once on_mount has run
ProgressScreen(gs, dry) ==
    [class |-> "ProgressScreen", games |-> gs, dry_run |-> dry,
     summary |-> None, started |-> FALSE]

\* CompletionScreen(summary, dry_run=...)
CompletionScreen(summary, dry) ==
    [class |-> "CompletionScreen", summary |-> summary, dry_run |-> dry]

\* the active screen, and the stack with another one in its place
Top == screen_stack[Len(screen_stack)]
SetTop(screen) == [screen_stack EXCEPT ![Len(screen_stack)] = screen]

\* the active screen is one of the class
Active(class) ==
    /\ tpc = "ui"
    /\ screen_stack # <<>>
    /\ Top.class = class

\* the texts typed into the filter input
FilterTexts == {"", "Bar"}

\* [g for g in self.games if filter_text in g.name.lower()], or a copy
Filtered(gs, value) ==
    IF Lower(Chars(value)) # <<>>
    THEN SelectSeq(gs, LAMBDA g : Contains(Lower(Chars(g.name)),
                                           Lower(Chars(value))))
    ELSE gs

\* the toggle of one appid in self.selected
Toggle(selected, appid) ==
    IF appid \in selected THEN selected \ {appid} ELSE selected \cup {appid}

\* main(): without a Steam root it returns 1; in list mode it calls
\* get_all_installed_games; otherwise run_tui(dry_run=args.dry_run) makes
\* the application
Main ==
    /\ tpc = "main"
    /\ IF find_steam_root(fs) = None
       THEN tpc' = "exited" /\ UNCHANGED <<app, cvars>>
       ELSE IF args.list_games
       THEN Build /\ tpc' = "list" /\ app' = app
       ELSE /\ app' = <<SteamUninstallerApp(args.dry_run)>>
            /\ tpc' = "mount"
            /\ UNCHANGED cvars
    /\ UNCHANGED <<args, screen_stack>>

\* list mode: the games are printed and main returns 0
ListGames ==
    /\ tpc = "list"
    /\ cpc = "idle"
    /\ tpc' = "exited"
    /\ UNCHANGED <<args, app, screen_stack>>

\* SteamUninstallerApp.on_mount calls get_all_installed_games
AppOnMount ==
    /\ tpc = "mount"
    /\ Build
    /\ tpc' = "load"
    /\ UNCHANGED <<args, app, screen_stack>>

\* SteamUninstallerApp.on_mount with the games: exit if there is none,
\* else the game list is pushed
AppOnMountLoaded ==
    /\ tpc = "load"
    /\ cpc = "idle"
    /\ LET gs == catalogs[Len(catalogs)]
       IN IF gs = <<>>
          THEN tpc' = "exited" /\ screen_stack' = screen_stack
          ELSE /\ screen_stack' = Append(screen_stack,
                                         GameListScreen(gs, app[1].dry_run))
               /\ tpc' = "ui"
    /\ UNCHANGED <<args, app>>

\* what get_all_installed_games raises leaves main or on_mount
Propagate ==
    /\ tpc \in {"list", "load"}
    /\ cpc = "raised"
    /\ tpc' = "raised"
    /\ UNCHANGED <<args, app, screen_stack>>

\* GameListScreen.on_input_changed
OnInputChanged(value) ==
    /\ Active("GameListScreen")
    /\ value # Top.filter
    /\ screen_stack' = SetTop([Top EXCEPT !.filter = value,
                                          !.filtered_games =
                                              Filtered(Top.games, value)])
    /\ UNCHANGED <<args, app, tpc>>

\* GameListScreen.action_toggle_selection, the cursor on a row of the table
ActionToggleSelection ==
    /\ Active("GameListScreen")
    /\ \E row \in 1..Len(Top.filtered_games) :
          screen_stack' = SetTop([Top EXCEPT !.selected =
                                    Toggle(Top.selected,
                                           Top.filtered_games[row].appid)])
    /\ UNCHANGED <<args, app, tpc>>

\* GameListScreen.on_data_table_row_selected
OnDataTableRowSelected ==
    /\ Active("GameListScreen")
    /\ \E row \in 1..Len(Top.filtered_games) :
          screen_stack' = SetTop([Top EXCEPT !.selected =
                                    Toggle(Top.selected,
                                           Top.filtered_games[row].appid)])
    /\ UNCHANGED <<args, app, tpc>>

\* GameListScreen.action_select_all
ActionSelectAll ==
    /\ Active("GameListScreen")
    /\ screen_stack' = SetTop([Top EXCEPT !.selected =
                                 Top.selected \cup
                                 { g.appid : g \in Elements(Top.filtered_games) }])
    /\ UNCHANGED <<args, app, tpc>>

\* GameListScreen.action_select_none
ActionSelectNone ==
    /\ Active("GameListScreen")
    /\ screen_stack' = SetTop([Top EXCEPT !.selected = {}])
    /\ UNCHANGED <<args, app, tpc>>

\* GameListScreen.action_clear_filter: the input is emptied, and
\* on_input_changed follows when that changed its value
ActionClearFilter ==
    /\ Active("GameListScreen")
    /\ screen_stack' = SetTop([Top EXCEPT !.filter = "",
                                          !.filtered_games = Top.games])
    /\ UNCHANGED <<args, app, tpc>>

\* ActionConfirm without the test of self.selected
ActionConfirm_WithoutSelection ==
    /\ Active("GameListScreen")
    /\ LET selected_games ==
               SelectSeq(Top.games, LAMBDA g : g.appid \in Top.selected)
       IN \E total \in calculate_total_size(fs, selected_games) :
            screen_stack' =
                Append(screen_stack,
                       ConfirmScreen(selected_games, Top.dry_run, total))
    /\ UNCHANGED <<args, app, tpc>>

\* GameListScreen.action_confirm, called by on_button_pressed
ActionConfirm ==
    /\ Active("GameListScreen")
    /\ IF Top.selected = {}
       THEN screen_stack' = screen_stack
       ELSE LET selected_games ==
                    SelectSeq(Top.games, LAMBDA g : g.appid \in Top.selected)
            IN \E total \in calculate_total_size(fs, selected_games) :
                 screen_stack' =
                     Append(screen_stack,
                            ConfirmScreen(selected_games, Top.dry_run, total))
    /\ UNCHANGED <<args, app, tpc>>

\* GameListScreen.action_quit, CompletionScreen.action_quit and
\* CompletionScreen.on_button_pressed: self.app.exit()
ActionQuit ==
    /\ \/ Active("GameListScreen")
       \/ Active("CompletionScreen")
    /\ tpc' = "exited"
    /\ UNCHANGED <<args, app, screen_stack>>

\* ConfirmScreen.action_cancel, and on_button_pressed for cancel-btn
ActionCancel ==
    /\ Active("ConfirmScreen")
    /\ screen_stack' = SubSeq(screen_stack, 1, Len(screen_stack) - 1)
    /\ UNCHANGED <<args, app, tpc>>

\* ConfirmScreen.action_proceed, and on_button_pressed for proceed-btn
ActionProceed ==
    /\ Active("ConfirmScreen")
    /\ screen_stack' = Append(screen_stack,
                              ProgressScreen(Top.games, Top.dry_run))
    /\ UNCHANGED <<args, app, tpc>>

\* ProgressScreen.on_mount: run_uninstall starts in its thread and calls
\* uninstall_games
ProgressOnMount ==
    /\ Active("ProgressScreen")
    /\ ~Top.started
    /\ Call(Top.games, Top.dry_run)
    /\ screen_stack' = SetTop([Top EXCEPT !.started = TRUE])
    /\ UNCHANGED <<args, app, tpc>>

\* run_uninstall after uninstall_games has returned: self.summary is set
\* and show_completion pushes the completion screen
ShowCompletion ==
    /\ Active("ProgressScreen")
    /\ Top.started
    /\ Top.summary = None
    /\ pc = "idle"
    /\ LET summary == returned[Len(returned)].summary
       IN screen_stack' =
              Append(SetTop([Top EXCEPT !.summary = <<summary>>]),
                     CompletionScreen(summary, Top.dry_run))
    /\ UNCHANGED <<args, app, tpc>>

\* the program not started
TIdle ==
    /\ args = [dry_run |-> FALSE, list_games |-> FALSE]
    /\ app = None
    /\ screen_stack = <<>>
    /\ tpc = "main"

(***************************************************************************)
(* parse_vdf: idle while the deletion engine runs.                         *)
(***************************************************************************)
PIdle ==
    /\ tokens = <<>>
    /\ pos = 1
    /\ result = <<>>
    /\ stack = << <<>> >>
    /\ current_key = <<>>
    /\ ppc = "returned"

\* get_dir_size not called alone
SIdle ==
    /\ size_path = <<>>
    /\ size_total = 0
    /\ spc = "idle"

Init == UInit /\ PIdle /\ SIdle /\ CIdle /\ TIdle

Next ==
    \/ \E gs \in Lists(MaxGames), dry \in BOOLEAN :
          Call(gs, dry) /\ UNCHANGED <<pvars, svars, cvars, tvars>>
    \/ ProgressCallback /\ UNCHANGED <<pvars, svars, cvars, tvars>>
    \/ Plan /\ UNCHANGED <<pvars, svars, cvars, tvars>>
    \/ ProcessPath /\ UNCHANGED <<pvars, svars, cvars, tvars>>
    \/ ReturnSuccess /\ UNCHANGED <<pvars, svars, cvars, tvars>>
    \/ Summarise /\ UNCHANGED <<pvars, svars, cvars, tvars>>
    \/ Repair /\ UNCHANGED <<pvars, svars, cvars, tvars>>

Spec == Init /\ [][Next]_vars

(***************************************************************************)
(* The deletion engine idle while parse_vdf runs.                          *)
(***************************************************************************)
UQuiet ==
    /\ faults = {}
    /\ games = <<>>
    /\ dry_run = FALSE
    /\ pc = "idle"
    /\ i = 1
    /\ progress = <<>>
    /\ paths_to_delete = <<>>
    /\ k = 1
    /\ bytes_freed = 0
    /\ measured = <<>>
    /\ attempted = <<>>
    /\ results = <<>>
    /\ fs_entry = fs
    /\ fs_start = fs
    /\ returned = <<>>

UIdle == fs = FullFs /\ UQuiet

ParseInit == PInit /\ UIdle /\ SIdle /\ CIdle /\ TIdle

ParseNext ==
    \/ ScanToken /\ UNCHANGED <<uvars, svars, cvars, tvars>>
    \/ ReturnResult /\ UNCHANGED <<uvars, svars, cvars, tvars>>

(***************************************************************************)
(* get_all_installed_games over the descriptor files of a filesystem.      *)
(***************************************************************************)
\* The entries of which one may be missing when the catalog is built.
CatalogUnits ==
    { SteamApps,
      SteamApps \o <<"libraryfolders.vdf">>,
      SteamApps \o <<"common", "A">>,
      SteamApps \o <<"compatdata", "10">>,
      UserData,
      UserData \o <<"2", "config">>,
      Library2 }

RECURSIVE SubsetsUpTo(_, _)
SubsetsUpTo(S, n) ==
    IF n = 0 THEN { {} }
    ELSE LET T == SubsetsUpTo(S, n - 1)
         IN T \cup { t \cup {x} : t \in T, x \in S }

CInit ==
    /\ \E A \in SubsetsUpTo(CatalogUnits, MaxAbsent) : fs = Without(FullFs, A)
    /\ UQuiet
    /\ \E E \in SubsetsUpTo(Edits, MaxEdits) :
          /\ \A d, e \in E : d.path = e.path => d = e
          /\ content = [p \in DescriptorFiles |->
                           IF \E e \in E : e.path = p
                           THEN (CHOOSE e \in E : e.path = p).file
                           ELSE DefaultContent[p]]
    /\ listing \in Listings
    /\ cpc = "idle"
    /\ steam_root = None
    /\ libraries = <<>>
    /\ playtime_data = <<>>
    /\ lib_i = 1
    /\ all_games = <<>>
    /\ catalogs = <<>>

CatalogInit == CInit /\ PIdle /\ SIdle /\ TIdle

CatalogNext ==
    \/ Build /\ UNCHANGED <<uvars, pvars, svars, tvars>>
    \/ GetLibraryFolders /\ UNCHANGED <<uvars, pvars, svars, tvars>>
    \/ GetPlaytimeData /\ UNCHANGED <<uvars, pvars, svars, tvars>>
    \/ GetInstalledGames /\ UNCHANGED <<uvars, pvars, svars, tvars>>
    \/ ReturnCatalog /\ UNCHANGED <<uvars, pvars, svars, tvars>>

CatalogSpec == CatalogInit /\ [][CatalogNext]_vars

ParseSpec == ParseInit /\ [][ParseNext]_vars

\* the loop of parse_vdf is a plain for loop: it always takes its next step
ParseLiveSpec == ParseSpec /\ WF_vars(ParseNext)

(***************************************************************************)
(* get_dir_size called alone, as calculate_total_size calls it, on the     *)
(* directories a package can name.                                         *)
(***************************************************************************)
SizePaths ==
    UNION { { game_path(g), compatdata_path(g), shadercache_path(g) } :
            g \in Packages }

GetDirSize(path) ==
    /\ spc = "idle"
    /\ size_path' = path
    /\ size_total' \in get_dir_size(fs, path)
    /\ spc' = "returned"

SizeNext ==
    \E path \in SizePaths :
        GetDirSize(path) /\ UNCHANGED <<uvars, pvars, cvars, tvars>>

SizeInit == UInit /\ PIdle /\ SIdle /\ CIdle /\ TIdle

SizeSpec == SizeInit /\ [][SizeNext]_vars

(***************************************************************************)
(* The program from its command line to its exit.                          *)
(***************************************************************************)
\* The filesystems the program is started on: complete; without the
\* second library; with no payload directory left; without steamapps.
StartFilesystems ==
    { FullFs,
      Without(FullFs, {Library2}),
      Without(FullFs, {Library2, SteamApps \o <<"common">>}),
      Without(FullFs, {SteamApps}) }

\* The descriptor texts it is started on: the usual ones, and those with
\* a descriptor whose name is a block.
StartContents ==
    { DefaultContent,
      [DefaultContent EXCEPT ![SteamApps \o <<"appmanifest_10.acf">>] =
          Readable(Block("AppState", KV("appid", "10") \o Block("name", <<>>)
                                     \o KV("installdir", "A")))] }

TuiInit ==
    /\ fs \in StartFilesystems
    /\ faults \in { F \in SUBSET FaultChoices : Cardinality(F) <= MaxFaults }
    /\ games = <<>>
    /\ dry_run = FALSE
    /\ pc = "idle"
    /\ i = 1
    /\ progress = <<>>
    /\ paths_to_delete = <<>>
    /\ k = 1
    /\ bytes_freed = 0
    /\ measured = <<>>
    /\ attempted = <<>>
    /\ results = <<>>
    /\ fs_entry = fs
    /\ fs_start = fs
    /\ returned = <<>>
    /\ PIdle /\ SIdle
    /\ content \in StartContents
    /\ listing \in Listings
    /\ cpc = "idle"
    /\ steam_root = None
    /\ libraries = <<>>
    /\ playtime_data = <<>>
    /\ lib_i = 1
    /\ all_games = <<>>
    /\ catalogs = <<>>
    /\ args \in [dry_run : BOOLEAN, list_games : BOOLEAN]
    /\ app = None
    /\ screen_stack = <<>>
    /\ tpc = "main"

TuiNext ==
    \/ Main /\ UNCHANGED <<uvars, pvars, svars>>
    \/ ListGames /\ UNCHANGED <<uvars, pvars, svars, cvars>>
    \/ AppOnMount /\ UNCHANGED <<uvars, pvars, svars>>
    \/ AppOnMountLoaded /\ UNCHANGED <<uvars, pvars, svars, cvars>>
    \/ Propagate /\ UNCHANGED <<uvars, pvars, svars, cvars>>
    \/ GetLibraryFolders /\ UNCHANGED <<uvars, pvars, svars, tvars>>
    \/ GetPlaytimeData /\ UNCHANGED <<uvars, pvars, svars, tvars>>
    \/ GetInstalledGames /\ UNCHANGED <<uvars, pvars, svars, tvars>>
    \/ ReturnCatalog /\ UNCHANGED <<uvars, pvars, svars, tvars>>
    \/ \E value \in FilterTexts :
          OnInputChanged(value) /\ UNCHANGED <<uvars, pvars, svars, cvars>>
    \/ ActionToggleSelection /\ UNCHANGED <<uvars, pvars, svars, cvars>>
    \/ OnDataTableRowSelected /\ UNCHANGED <<uvars, pvars, svars, cvars>>
    \/ ActionSelectAll /\ UNCHANGED <<uvars, pvars, svars, cvars>>
    \/ ActionSelectNone /\ UNCHANGED <<uvars, pvars, svars, cvars>>
    \/ ActionClearFilter /\ UNCHANGED <<uvars, pvars, svars, cvars>>
    \/ ActionConfirm /\ UNCHANGED <<uvars, pvars, svars, cvars>>
    \/ ActionQuit /\ UNCHANGED <<uvars, pvars, svars, cvars>>
    \/ ActionCancel /\ UNCHANGED <<uvars, pvars, svars, cvars>>
    \/ ActionProceed /\ UNCHANGED <<uvars, pvars, svars, cvars>>
    \/ ProgressOnMount /\ UNCHANGED <<pvars, svars, cvars>>
    \/ ProgressCallback /\ UNCHANGED <<pvars, svars, cvars, tvars>>
    \/ Plan /\ UNCHANGED <<pvars, svars, cvars, tvars>>
    \/ ProcessPath /\ UNCHANGED <<pvars, svars, cvars, tvars>>
    \/ ReturnSuccess /\ UNCHANGED <<pvars, svars, cvars, tvars>>
    \/ Summarise /\ UNCHANGED <<pvars, svars, cvars, tvars>>
    \/ ShowCompletion /\ UNCHANGED <<uvars, pvars, svars, cvars>>

TuiSpec == TuiInit /\ [][TuiNext]_vars

(***************************************************************************)
(* The catalog built, packages of it uninstalled, the catalog built again. *)
(***************************************************************************)
\* uninstall_games(gs, dry_run=dry) over packages of the last catalog, in
\* the order of the catalog
UninstallListed(dry) ==
    /\ cpc = "idle"
    /\ catalogs # <<>>
    /\ LET listed == catalogs[Len(catalogs)]
       IN \E I \in SUBSET (1..Len(listed)) :
            /\ I # {}
            /\ Cardinality(I) <= MaxGames
            /\ Call([n \in 1..Cardinality(I) |->
                        listed[CHOOSE m \in I :
                                  Cardinality({ j \in I : j <= m }) = n]],
                    dry)

\* The descriptor texts are the usual ones, or have a descriptor without
\* installdir, two descriptors with the same installdir, or a descriptor
\* without appid.
CycleInit ==
    /\ \E A \in SubsetsUpTo(CatalogUnits, MaxAbsent) : fs = Without(FullFs, A)
    /\ faults \in { F \in SUBSET FaultChoices : Cardinality(F) <= MaxFaults }
    /\ games = <<>>
    /\ dry_run = FALSE
    /\ pc = "idle"
    /\ i = 1
    /\ progress = <<>>
    /\ paths_to_delete = <<>>
    /\ k = 1
    /\ bytes_freed = 0
    /\ measured = <<>>
    /\ attempted = <<>>
    /\ results = <<>>
    /\ fs_entry = fs
    /\ fs_start = fs
    /\ returned = <<>>
    /\ content \in
         { DefaultContent,
           [DefaultContent EXCEPT ![SteamApps \o <<"appmanifest_10.acf">>] =
               Readable(Block("AppState", KV("appid", "10") \o KV("name", "Foo")))],
           [DefaultContent EXCEPT ![SteamApps \o <<"appmanifest_20.acf">>] =
               Readable(ManifestText("20", "foo", "A", "7"))],
           [DefaultContent EXCEPT ![SteamApps \o <<"appmanifest_10.acf">>] =
               Readable(Block("AppState", KV("name", "Foo")
                                          \o KV("installdir", "A")))] }
    /\ listing \in Listings
    /\ cpc = "idle"
    /\ steam_root = None
    /\ libraries = <<>>
    /\ playtime_data = <<>>
    /\ lib_i = 1
    /\ all_games = <<>>
    /\ catalogs = <<>>
    /\ PIdle /\ SIdle /\ TIdle

CycleNext ==
    \/ (pc = "idle" /\ Build) /\ UNCHANGED <<uvars, pvars, svars, tvars>>
    \/ GetLibraryFolders /\ UNCHANGED <<uvars, pvars, svars, tvars>>
    \/ GetPlaytimeData /\ UNCHANGED <<uvars, pvars, svars, tvars>>
    \/ GetInstalledGames /\ UNCHANGED <<uvars, pvars, svars, tvars>>
    \/ ReturnCatalog /\ UNCHANGED <<uvars, pvars, svars, tvars>>
    \/ \E dry \in BOOLEAN :
          UninstallListed(dry) /\ UNCHANGED <<pvars, svars, cvars, tvars>>
    \/ ProgressCallback /\ UNCHANGED <<pvars, svars, cvars, tvars>>
    \/ Plan /\ UNCHANGED <<pvars, svars, cvars, tvars>>
    \/ ProcessPath /\ UNCHANGED <<pvars, svars, cvars, tvars>>
    \/ ReturnSuccess /\ UNCHANGED <<pvars, svars, cvars, tvars>>
    \/ Summarise /\ UNCHANGED <<pvars, svars, cvars, tvars>>

CycleSpec == CycleInit /\ [][CycleNext]_vars

(***************************************************************************)
(* Properties of the deletion engine.                                      *)
(***************************************************************************)
\* the paths that f0 has and f1 has not
Removed(f0, f1) ==
    { p \in AllPaths : f0[p].kind # "none" /\ f1[p].kind = "none" }

\* uninstall_game is running, or has returned and nothing ran since
GameCalled == pc = "delete" \/ (pc \in {"loop", "plan", "idle"} /\ i > 1)
TheGame == IF pc = "delete" THEN games[i] ELSE games[i - 1]

\* C1: a live uninstall_game removes nothing but the package's descriptor
\* file and the trees steamapps/common/<install_dir>,
\* steamapps/compatdata/<appid> and steamapps/shadercache/<appid> under the
\* package's own library root; every other path that existed when it was
\* called still exists.
OnlyOwnPathsUnderLibraryRemoved ==
    (GameCalled /\ ~dry_run) =>
        \A p \in Removed(fs_entry, fs) :
            /\ IsPrefix(PathJoin(TheGame.library_path, "steamapps"), p)
            /\ \/ IsPrefix(manifest_path(TheGame), p)
               \/ IsPrefix(game_path(TheGame), p)
               \/ IsPrefix(compatdata_path(TheGame), p)
               \/ IsPrefix(shadercache_path(TheGame), p)

\* C2: a dry-run uninstall_games leaves the filesystem as it was: while it
\* runs and when it has returned, every path exists as before and with the
\* same size.
DryRunLeavesFilesystem ==
    /\ (dry_run /\ pc # "idle") => fs = fs_start
    /\ \A b \in 1..Len(returned) :
          returned[b].dry_run => returned[b].fs_after = returned[b].fs_before

\* a dry run over packages whose paths exist has returned
DryRunReturned ==
    \E b \in 1..Len(returned) :
        /\ returned[b].dry_run
        /\ Len(returned[b].games) = MaxGames
        /\ returned[b].summary.total_bytes_freed > 0
        /\ returned[b].summary.failed = 0

\* C3: the total_bytes_freed of a dry-run uninstall_games equals that of a
\* live uninstall_games over the same list from the same filesystem state.
DryRunTotalEqualsLiveTotal ==
    \A a, b \in 1..Len(returned) :
        ( /\ returned[a].dry_run
          /\ ~returned[b].dry_run
          /\ returned[a].games = returned[b].games
          /\ returned[a].fs_before = returned[b].fs_before )
        => returned[a].summary.total_bytes_freed
             = returned[b].summary.total_bytes_freed

RECURSIVE SumMeasuredBefore(_, _)
SumMeasuredBefore(ms, n) ==
    IF ms = <<>> THEN 0
    ELSE (IF ms[1].index < n THEN ms[1].size ELSE 0)
         + SumMeasuredBefore(Tail(ms), n)

\* the step in which uninstall_game returns a failure
FailureStep ==
    /\ pc = "delete"
    /\ Len(results') = Len(results) + 1
    /\ ~results'[Len(results')].success

\* C5: when the measurement or removal of the k-th planned path raises,
\* no planned path after the k-th is touched, the result has success=false
\* and a non-empty error message, and its bytes_freed is the sum of the
\* sizes measured for the planned paths before the k-th.
FailureKeepsLaterPaths ==
    [][ FailureStep =>
          LET r == results'[Len(results')]
          IN /\ \A j \in (k + 1)..Len(paths_to_delete) :
                  \A q \in AllPaths :
                      IsPrefix(paths_to_delete[j][1], q) => fs'[q] = fs[q]
             /\ r.error # None
             /\ r.error[1] # ""
             /\ r.bytes_freed = SumMeasuredBefore(measured', k) ]_vars

\* a live uninstall_game has failed on a path after it had freed bytes,
\* with planned paths still to come
FailedPartway ==
    /\ pc = "loop" /\ i > 1 /\ ~dry_run
    /\ ~results[i - 1].success
    /\ results[i - 1].bytes_freed > 0
    /\ k < Len(paths_to_delete)
    /\ Exists(fs, paths_to_delete[k + 1][1])
    /\ fs # fs_entry

\* C6: the results of a summary are as many as the input packages and the
\* i-th result refers to the i-th input package, failed or not.
ResultsInInputOrder ==
    /\ \A j \in 1..Len(results) : results[j].game = games[j]
    /\ \A b \in 1..Len(returned) :
          /\ Len(returned[b].summary.results) = Len(returned[b].games)
          /\ \A j \in 1..Len(returned[b].games) :
                returned[b].summary.results[j].game = returned[b].games[j]

\* a batch over two different packages has returned, the first one failed
TwoPackagesOneFailed ==
    \E b \in 1..Len(returned) :
        /\ Len(returned[b].games) = 2
        /\ returned[b].games[1] # returned[b].games[2]
        /\ ~returned[b].summary.results[1].success
        /\ returned[b].summary.results[2].success

RECURSIVE SumOver(_, _)
SumOver(rs, n) == IF n = 0 THEN 0 ELSE rs[n].bytes_freed + SumOver(rs, n - 1)

\* C7: in every returned summary total_games is the number of input
\* packages, successful and failed count the results with success=true and
\* success=false, they add up to total_games, and total_bytes_freed is the
\* sum of bytes_freed over all results, the failed ones included.
SummaryCountsAgree ==
    \A b \in 1..Len(returned) :
        LET sm == returned[b].summary
            rs == sm.results
        IN /\ sm.total_games = Len(returned[b].games)
           /\ sm.successful = Cardinality({ j \in 1..Len(rs) : rs[j].success })
           /\ sm.failed = Cardinality({ j \in 1..Len(rs) : ~rs[j].success })
           /\ sm.successful + sm.failed = sm.total_games
           /\ sm.total_bytes_freed = SumOver(rs, Len(rs))

\* a summary with a success and with a failure that had freed bytes
MixedSummary ==
    \E b \in 1..Len(returned) :
        LET sm == returned[b].summary
        IN /\ sm.successful > 0
           /\ \E j \in 1..Len(sm.results) :
                 ~sm.results[j].success /\ sm.results[j].bytes_freed > 0

\* C8: the observer is called once per package, the call for the package
\* at (0-based) index n carries (n, N, package), and it comes after all
\* work on the packages before it and before any work on the package
\* itself: packages are processed one at a time.
ObserverBeforeEachPackage ==
    /\ [](/\ \A j \in 1..Len(progress) :
               progress[j] = <<j - 1, Len(games), games[j]>>
          /\ pc = "loop" =>
               /\ Len(progress) = i - 1
               /\ Len(attempted) = i - 1
               /\ Len(results) = i - 1
          /\ pc = "plan" =>
               /\ Len(progress) = i
               /\ Len(attempted) = i - 1
               /\ Len(results) = i - 1
          /\ pc = "delete" =>
               /\ Len(progress) = i
               /\ attempted = [j \in 1..i |-> j]
               /\ Len(results) = i - 1
          /\ \A b \in 1..Len(returned) :
               Len(returned[b].progress) = Len(returned[b].games))
    /\ [][ /\ fs' # fs =>
                /\ pc = "delete"
                /\ progress[Len(progress)] = <<i - 1, Len(games), games[i]>>
                /\ progress' = progress
           /\ Len(progress') = Len(progress) + 1 =>
                /\ fs' = fs
                /\ Len(results) = Len(progress)
                /\ Len(attempted) = Len(progress) ]_vars

\* the observer has been called for the second of two packages, after the
\* first was removed
SecondPackageAnnounced ==
    /\ pc = "delete"
    /\ Len(games) = 2 /\ i = 2
    /\ Len(progress) = 2
    /\ fs # fs_start
    /\ k > 1

(***************************************************************************)
(* Properties of parse_vdf.                                                *)
(***************************************************************************)
\* every entry of the stack refers to a dict inside result
RECURSIVE IsDictAt(_, _)
IsDictAt(root, path) ==
    \/ path = <<>>
    \/ /\ HasKey(root, path[1])
       /\ GetItem(root, path[1]).type = "dict"
       /\ IsDictAt(GetItem(root, path[1]).items, Tail(path))

\* C9: parse_vdf returns a mapping for every sequence of quoted strings,
\* '{' and '}': it has no error outcome, its scope stack is never empty
\* (its bottom is the root mapping and every entry is an open mapping), and
\* it reaches its return.
ParserNeverRaises ==
    /\ [](/\ ppc # "raised"
          /\ Len(stack) >= 1
          /\ stack[1] = <<>>
          /\ \A n \in 1..Len(stack) : IsDictAt(result, stack[n]))
    /\ <>(ppc = "returned")

\* parse_vdf has returned from an input that begins with '}', leaves a
\* mapping open and ends in a key with no value
MalformedReturned ==
    /\ ppc = "returned"
    /\ Len(tokens) >= 4
    /\ tokens[1] = CloseBrace
    /\ Len(stack) > 1
    /\ current_key # None
    /\ result # EmptyDict

\* The mapping a well-formed text denotes, by descent over its grammar
\*   entries ::= | key value entries | key '{' entries '}' entries
\* read from position p: [ok, items, next].
NotOk == [ok |-> FALSE, items |-> EmptyDict, next |-> 0]

\* the entry key: val followed by the entries of later: the key keeps the
\* place of its first entry and has the value of its last
Override(key, val, later) ==
    IF HasKey(later, key)
    THEN <<[key |-> key, val |-> GetItem(later, key)]>>
         \o SelectSeq(later, LAMBDA e : e.key # key)
    ELSE <<[key |-> key, val |-> val]>> \o later

RECURSIVE Entries(_, _)
Entries(ts, p) ==
    IF p > Len(ts) \/ ts[p] = CloseBrace
    THEN [ok |-> TRUE, items |-> EmptyDict, next |-> p]
    ELSE IF ts[p] = OpenBrace \/ p + 1 > Len(ts) \/ ts[p + 1] = CloseBrace
    THEN NotOk
    ELSE IF ts[p + 1] = OpenBrace
    THEN LET inner == Entries(ts, p + 2)
         IN IF ~inner.ok \/ inner.next > Len(ts)
            THEN NotOk
            ELSE LET rest == Entries(ts, inner.next + 1)
                 IN IF ~rest.ok THEN NotOk
                    ELSE [ok |-> TRUE,
                          items |-> Override(ts[p].value, Dict(inner.items),
                                             rest.items),
                          next |-> rest.next]
    ELSE LET rest == Entries(ts, p + 2)
         IN IF ~rest.ok THEN NotOk
            ELSE [ok |-> TRUE,
                  items |-> Override(ts[p].value, Str(ts[p + 1].value),
                                     rest.items),
                  next |-> rest.next]

WellFormed(ts) == Entries(ts, 1).ok /\ Entries(ts, 1).next = Len(ts) + 1

Denotation(ts) == Entries(ts, 1).items

\* C10: for a well-formed input parse_vdf returns the nested mapping the
\* text denotes: each key maps to its string or to the mapping of its
\* block, and a key written twice in one scope maps to the last value
\* (and is iterated where it was first written).
WellFormedParsesToDenotation ==
    (ppc = "returned" /\ WellFormed(tokens)) => result = Denotation(tokens)

\* a well-formed input whose nested block writes one key twice, with
\* different values, has been parsed
NestedDuplicateParsed ==
    /\ ppc = "returned"
    /\ WellFormed(tokens)
    /\ Len(tokens) = 7
    /\ tokens[2] = OpenBrace
    /\ tokens[3] = tokens[5]
    /\ tokens[4] # tokens[6]
    /\ tokens[4] # OpenBrace
    /\ tokens[7] = CloseBrace

\* C11: a '}' read while only the root mapping is open is a no-op: the tree
\* built so far, the scope stack and the pending key are unchanged, the
\* loop goes on to the next token, and the root mapping is still the open
\* scope that later tokens are written into.
StrayCloseBraceIsNoOp ==
    [][ ( /\ ppc = "scan"
          /\ pos <= Len(tokens)
          /\ tokens[pos] = CloseBrace
          /\ Len(stack) = 1 )
        => /\ result' = result
           /\ stack' = stack
           /\ current_key' = current_key
           /\ stack'[Len(stack')] = <<>>
           /\ pos' = pos + 1
           /\ ppc' = "scan" ]_vars

\* parse_vdf has returned from  "a" } ""  : the '}' came with only the root
\* open and a key pending, and the value after it was written into the
\* root under that key
StrayCloseThenRootWrite ==
    /\ ppc = "returned"
    /\ tokens = <<Quoted("a"), CloseBrace, Quoted("")>>
    /\ result = <<[key |-> "a", val |-> Str("")]>>
    /\ stack = << <<>> >>
    /\ current_key = None

\* the four paths of a package in the order of the plan, and which of
\* them the plan holds when the disk is f
CanonicalPaths(g) ==
    <<manifest_path(g), game_path(g), compatdata_path(g), shadercache_path(g)>>

Planned(g, f) ==
    <<TRUE,
      Exists(f, game_path(g)),
      g.has_compatdata /\ Exists(f, compatdata_path(g)),
      g.has_shadercache /\ Exists(f, shadercache_path(g))>>

\* C18: the plan is, in this order, the descriptor file (always), the
\* payload directory iff it exists, the compatibility-layer directory iff
\* the flag is set and it exists, the shader-cache directory iff the flag
\* is set and it exists, all as of the call; making the plan changes
\* neither the filesystem nor the package.
PlanIsDescriptorThenExistingDirs ==
    /\ [](pc = "delete" =>
            LET g == games[i]
                keep == { n \in 1..4 : Planned(g, fs_entry)[n] }
                nth(a) == CHOOSE n \in keep :
                              Cardinality({ m \in keep : m <= n }) = a
            IN /\ Len(paths_to_delete) = Cardinality(keep)
               /\ \A a \in 1..Len(paths_to_delete) :
                     paths_to_delete[a][1] = CanonicalPaths(g)[nth(a)])
    /\ [][pc = "plan" => (fs' = fs /\ games' = games /\ fs_entry' = fs)]_vars

\* a plan made for a package whose descriptor is gone and whose
\* shader-cache flag is set though the directory is gone: the descriptor
\* and the payload directory, no more
StalePlan ==
    /\ pc = "delete"
    /\ ~Exists(fs_entry, manifest_path(games[i]))
    /\ Exists(fs_entry, game_path(games[i]))
    /\ games[i].has_shadercache
    /\ ~Exists(fs_entry, shadercache_path(games[i]))
    /\ Len(paths_to_delete) = 2

\* a batch with a result that failed
HasFailure(b) ==
    \E j \in 1..Len(returned[b].summary.results) :
        ~returned[b].summary.results[j].success

\* C19: uninstall_game plans, besides the descriptor, only paths that
\* exist, measures and removes only paths that exist, and steps over a
\* planned path that is gone without failing; a live batch run again after
\* a live batch that had failed, with the cause of the failure gone,
\* succeeds for every package and leaves none of their planned paths.
RetryFindsFewerPathsAndSucceeds ==
    /\ [](/\ pc = "delete" =>
               \A n \in 2..Len(paths_to_delete) :
                   Exists(fs_entry, paths_to_delete[n][1])
          /\ \A b \in 2..Len(returned) :
               ( /\ ~returned[b].dry_run
                 /\ returned[b].faults = {}
                 /\ ~returned[b - 1].dry_run
                 /\ HasFailure(b - 1) )
               => /\ ~HasFailure(b)
                  /\ \A j \in 1..Len(returned[b].games) :
                        LET g == returned[b].games[j]
                        IN \A n \in 1..4 :
                             (n \in {1, 2} \/ Planned(g, returned[1].fs_before)[n])
                             => ~Exists(returned[b].fs_after,
                                        CanonicalPaths(g)[n]))
    /\ [][ (pc = "delete" /\ k <= Len(paths_to_delete)) =>
             IF Exists(fs, paths_to_delete[k][1])
             THEN TRUE
             ELSE /\ k' = k + 1
                  /\ fs' = fs
                  /\ measured' = measured
                  /\ bytes_freed' = bytes_freed
                  /\ results' = results ]_vars

\* a live batch failed after it had removed the descriptor; the batch run
\* again with the cause gone found the descriptor missing, removed what
\* was left and succeeded
RetrySucceeded ==
    /\ Len(returned) = 2
    /\ ~returned[1].dry_run /\ ~returned[2].dry_run
    /\ \E j \in 1..Len(returned[1].summary.results) :
          /\ ~returned[1].summary.results[j].success
          /\ returned[1].summary.results[j].bytes_freed > 0
    /\ returned[2].faults = {}
    /\ returned[2].summary.failed = 0
    /\ ~Exists(returned[2].fs_before, manifest_path(returned[2].games[1]))
    /\ returned[2].fs_after # returned[2].fs_before

(***************************************************************************)
(* Properties of get_dir_size.                                             *)
(***************************************************************************)
\* the regular files under path whose stat() succeeds
ReadableFiles(f, path) ==
    { q \in Tree(f, path) :
        /\ q # path
        /\ f[q].kind = "file"
        /\ FaultsAt("stat", q) = {} }

\* C17: get_dir_size returns 0 for a path that does not exist and, for an
\* existing directory, the sum of the sizes of the regular files under it
\* that can be read: an entry that cannot be read adds 0 and does not stop
\* the sum.
DirSizeSumsReadableFiles ==
    spc = "returned" =>
        size_total = IF ~Exists(fs, size_path) THEN 0
                     ELSE SumSizes(fs, ReadableFiles(fs, size_path))

(***************************************************************************)
(* Properties of the catalog builder.                                      *)
(***************************************************************************)
\* the packages get_installed_games has returned in the running build, and
\* those of every list get_all_installed_games has returned
Listed ==
    Elements(all_games)
    \cup UNION { Elements(catalogs[b]) : b \in 1..Len(catalogs) }

\* C12: every package of the catalog has a non-empty install_dir and its
\* payload directory is the subdirectory of that name of its library's
\* steamapps/common, which exists when the catalog is built; a descriptor
\* whose payload directory is absent gives no entry.
CatalogEntriesHavePayloadSubdirectory ==
    \A g \in Listed :
        /\ g.install_dir # ""
        /\ game_path(g) = g.library_path \o <<"steamapps", "common", g.install_dir>>
        /\ Exists(fs, game_path(g))

\* C13: no package whose name contains "Proton" or "Runtime" is in the
\* output of get_installed_games or get_all_installed_games.
NoToolInCatalog ==
    \A g \in Listed :
        /\ ~Contains(Chars(g.name), <<80, 114, 111, 116, 111, 110>>)
        /\ ~Contains(Chars(g.name), <<82, 117, 110, 116, 105, 109, 101>>)

\* a catalog was built where the descriptor of "Proton 7" and its payload
\* directory both exist: the other packages are listed, this one is not
ToolDescriptorLeftOut ==
    /\ Len(catalogs) >= 1
    /\ content[SteamApps \o <<"appmanifest_10.acf">>]
         = Readable(ManifestText("10", "Proton 7", "A", "5"))
    /\ Exists(fs, SteamApps \o <<"appmanifest_10.acf">>)
    /\ Exists(fs, SteamApps \o <<"common", "A">>)
    /\ Len(catalogs[1]) >= 2
    /\ \A n \in 1..Len(catalogs[1]) : catalogs[1][n].appid # "10"

Referenced(c, root) ==
    LET data == parse_vdf(c[PathJoin(PathJoin(root, "steamapps"),
                                     "libraryfolders.vdf")].tokens)
        folders == IF HasKey(data, "libraryfolders")
                   THEN GetItem(data, "libraryfolders").items ELSE <<>>
    IN { Path(GetItem(folders[n].val.items, "path").str) :
           n \in { m \in 1..Len(folders) :
                     /\ folders[m].val.type = "dict"
                     /\ HasKey(folders[m].val.items, "path") } }

\* C15: the list get_library_folders returns holds the probed root, holds
\* no path twice, and holds besides the root exactly the referenced paths
\* that exist; the root comes first when the descriptor does not refer to
\* it; without the descriptor file the list is the root alone.
LibraryFoldersAreRootAndReferenced ==
    cpc = "playtime" =>
        IF ~Exists(fs, SteamApps \o <<"libraryfolders.vdf">>)
        THEN libraries = <<steam_root>>
        ELSE /\ steam_root \in Elements(libraries)
             /\ \A a, b \in 1..Len(libraries) :
                   a # b => libraries[a] # libraries[b]
             /\ Elements(libraries) \ {steam_root}
                  = { q \in Referenced(content, steam_root) : Exists(fs, q) }
                    \ {steam_root}
             /\ steam_root \notin Referenced(content, steam_root)
                  => libraries[1] = steam_root

\* the user directories whose processing raises
FailingUsers ==
    { u \in Elements(iterdir(fs, listing, UserData)) :
        ReadUser(fs, content, u, <<>>).raised }

\* C16: when the processing of one user's local-config raises,
\* get_playtime_data returns what it returns with that user's directory
\* taken away: the user adds nothing to the result.
FailedUserContributesNothing ==
    cpc = "games" =>
        \A u \in FailingUsers :
            playtime_data
              = get_playtime_data(Without(fs, {u}), content, listing,
                                  steam_root)

(***************************************************************************)
(* Properties of the interactive flow.                                     *)
(***************************************************************************)
\* C20: the dry_run of the command line is the dry_run of the application,
\* of every screen it pushes (game list, confirmation, progress,
\* completion) and of every call of uninstall_games, running or returned:
\* started with --dry-run, uninstall_games is never called with
\* dry_run false.
DryRunReachesUninstallGames ==
    /\ \A n \in 1..Len(app) : app[n].dry_run = args.dry_run
    /\ \A n \in 1..Len(screen_stack) : screen_stack[n].dry_run = args.dry_run
    /\ pc # "idle" => dry_run = args.dry_run
    /\ \A b \in 1..Len(returned) : returned[b].dry_run = args.dry_run

\* started with --dry-run, a batch over two packages chosen on the game
\* list went through confirmation and progress and has returned
DryRunBatchFromScreens ==
    /\ args.dry_run
    /\ Len(screen_stack) = 4
    /\ Top.class = "CompletionScreen"
    /\ Len(returned) = 1
    /\ returned[1].dry_run
    /\ Len(returned[1].games) = 2
    /\ returned[1].fs_after = returned[1].fs_before

(***************************************************************************)
(* Properties of one uninstall_game.                                       *)
(***************************************************************************)
\* C21: when a live uninstall_game returns success, none of the four paths
\* of the package exists: descriptor file, payload directory,
\* compatibility-layer directory, shader-cache directory, whatever the
\* flags of the package are.
SuccessLeavesNoCanonicalPath ==
    [][(/\ pc = "delete"
        /\ pc' = "loop"
        /\ ~dry_run
        /\ results'[Len(results')].success)
       => \A n \in 1..4 : ~Exists(fs', CanonicalPaths(games[i])[n])]_vars

\* the package uninstall_game was last called for
LastAttempted == games[attempted[Len(attempted)]]

\* C22: in a live uninstall_game the plan is in the order descriptor,
\* payload, compatibility-layer data, shader cache; when the run comes to a
\* planned path every earlier planned path is gone; and whenever the run has
\* removed anything but the descriptor, the descriptor does not exist.
PathsRemovedInPlanOrder ==
    (attempted # <<>> /\ ~dry_run) =>
        /\ pc = "delete" =>
              /\ \A n \in 1..(k - 1) : ~Exists(fs, paths_to_delete[n][1])
              /\ \A a, b \in 1..Len(paths_to_delete) :
                    a < b => \E n, m \in 1..4 :
                               /\ n < m
                               /\ paths_to_delete[a][1] = CanonicalPaths(games[i])[n]
                               /\ paths_to_delete[b][1] = CanonicalPaths(games[i])[m]
        /\ (\E q \in DOMAIN fs :
              /\ q # manifest_path(LastAttempted)
              /\ Exists(fs_entry, q)
              /\ ~Exists(fs, q))
           => ~Exists(fs, manifest_path(LastAttempted))

\* a live run that has removed the descriptor and then the payload
\* directory and is at its third planned path
PayloadGoneAfterDescriptor ==
    /\ pc = "delete"
    /\ ~dry_run
    /\ k = 3
    /\ Len(paths_to_delete) >= 3
    /\ Exists(fs_entry, manifest_path(games[i]))
    /\ ~Exists(fs, manifest_path(games[i]))
    /\ Exists(fs_entry, game_path(games[i]))
    /\ ~Exists(fs, game_path(games[i]))

(***************************************************************************)
(* Properties of the scopes of parse_vdf.                                  *)
(***************************************************************************)
\* the position of the token that set the pending key, when the token at p
\* is about to be paired with it: the last quoted string before p, with
\* nothing but "}" in between
KeyPosition(ts, p) ==
    CHOOSE q \in 1..(p - 1) :
        /\ ts[q] \notin {OpenBrace, CloseBrace}
        /\ \A r \in (q + 1)..(p - 1) : ts[r] = CloseBrace

\* the innermost open scope when the token at q was read
ScopeAt(ts, q) ==
    LET st == FeedAll(Start, SubSeq(ts, 1, q - 1), 1)
    IN st.stack[Len(st.stack)]

\* C23: an entry is written into a mapping only when its key token and its
\* value token (or opening brace) were both read while that mapping was the
\* innermost open scope: a key pending when "}" closes its scope is not
\* paired with a token of the enclosing scope.
EntryPairsWithinOneScope ==
    [][(/\ ppc = "scan"
        /\ pos <= Len(tokens)
        /\ current_key # None
        /\ tokens[pos] # CloseBrace
        /\ pos' = pos + 1)
       => /\ ScopeAt(tokens, KeyPosition(tokens, pos)) = stack[Len(stack)]
          /\ ScopeAt(tokens, pos) = stack[Len(stack)]]_vars

\* the depth of the scope stack after the first n tokens, counted from the
\* text: [depth, pending]
RECURSIVE ScopeDepth(_, _)
ScopeDepth(ts, n) ==
    IF n = 0 THEN [depth |-> 1, pending |-> FALSE]
    ELSE LET before == ScopeDepth(ts, n - 1)
         IN IF ts[n] = OpenBrace
            THEN IF before.pending
                 THEN [depth |-> before.depth + 1, pending |-> FALSE]
                 ELSE before
            ELSE IF ts[n] = CloseBrace
            THEN IF before.depth > 1
                 THEN [before EXCEPT !.depth = before.depth - 1]
                 ELSE before
            ELSE [before EXCEPT !.pending = ~before.pending]

\* C27: a "{" read while no key is pending opens no scope and changes
\* neither the tree nor the stack nor the pending key; the depth of the
\* stack after any prefix of the input is 1, plus the "{" read with a key
\* pending, minus the "}" read at a depth above 1: the "}" written for a
\* keyless "{" closes the enclosing scope.
KeylessOpenBraceOpensNoScope ==
    /\ [][(/\ ppc = "scan"
           /\ pos <= Len(tokens)
           /\ tokens[pos] = OpenBrace
           /\ current_key = None)
          => /\ result' = result
             /\ stack' = stack
             /\ current_key' = None
             /\ pos' = pos + 1
             /\ ppc' = "scan"]_vars
    /\ [](/\ Len(stack) = ScopeDepth(tokens, pos - 1).depth
          /\ (current_key # None) = ScopeDepth(tokens, pos - 1).pending)

\* "a" { { } has been read: the second "{" opened nothing and the "}"
\* closed the mapping of "a"; the next key goes into the root
KeylessBraceThenCloseEnclosing ==
    /\ ppc = "scan"
    /\ pos = 5
    /\ SubSeq(tokens, 1, 4) = <<Quoted("a"), OpenBrace, OpenBrace, CloseBrace>>
    /\ stack = << <<>> >>
    /\ result = <<[key |-> "a", val |-> Dict(EmptyDict)]>>
    /\ current_key = None
    /\ Len(tokens) >= 6

(***************************************************************************)
(* Properties of uninstalling packages of a catalog.                       *)
(***************************************************************************)
\* C24: a live uninstall_game of a package of a catalog leaves every other
\* package of the catalogs intact: the descriptor file and the payload
\* directory of each, when there at the start of the run, are still there.
OtherPackagesLeftIntact ==
    (attempted # <<>> /\ ~dry_run) =>
        \A b \in 1..Len(catalogs) :
            \A Q \in Elements(catalogs[b]) :
                Q # LastAttempted =>
                    /\ Exists(fs_entry, manifest_path(Q))
                         => Exists(fs, manifest_path(Q))
                    /\ Exists(fs_entry, game_path(Q))
                         => Exists(fs, game_path(Q))

\* the catalog c lists the package g again
Relisted(g, c) ==
    \E n \in 1..Len(c) :
        /\ c[n].appid = g.appid
        /\ c[n].name = g.name
        /\ c[n].install_dir = g.install_dir
        /\ c[n].library_path = g.library_path

\* C25: a catalog built after a live uninstall_game that failed past the
\* descriptor (the descriptor appmanifest_<appid>.acf is gone, the result
\* is a failure) does not list that package; every package a catalog lists
\* has its descriptor file on disk.
FailedPackageNotRelisted ==
    [][(cpc = "games" /\ cpc' = "idle")
       => LET rebuilt == catalogs'[Len(catalogs')]
          IN /\ \A b \in 1..Len(returned) :
                   \A j \in 1..Len(returned[b].summary.results) :
                       LET r == returned[b].summary.results[j]
                       IN (/\ ~returned[b].dry_run
                           /\ ~r.success
                           /\ ~Exists(returned[b].fs_after,
                                      manifest_path(r.game)))
                          => ~Relisted(r.game, rebuilt)
             /\ \A g \in Elements(rebuilt) : Exists(fs, manifest_path(g))]_vars

\* the screens of a class on the stack, by their positions
ScreensOf(class) ==
    { n \in 1..Len(screen_stack) : screen_stack[n].class = class }

====
